---- MODULE Spec2Model ----
(***************************************************************************)
(* Blitz Arena: the room registry, the match state machine and the tick    *)
(* simulation of server/roomManager.js, driven by the WebSocket server     *)
(* (connection, message, close, game-loop and stale-scan handlers).        *)
(*                                                                         *)
(* Representation.  JavaScript numbers that carry lengths are kept in      *)
(* fixed point, Unit = 1000 steps per arena unit, so PLAYER_RADIUS 0.6 is  *)
(* 600 and a projectile step of 16/20 = 0.8 is 800.  Times are integer     *)
(* milliseconds, as Date.now() returns them; timeRemaining (seconds in the *)
(* source) is kept in milliseconds.  null is 0 for startTime and for timer *)
(* handles: the source tests both by truthiness.  A Map is a sequence of   *)
(* records in insertion order, looked up by the field id.                  *)
(***************************************************************************)
EXTENDS Integers, Sequences, FiniteSets, TLC

VARIABLES
    rooms,    \* RoomManager.rooms: the room Map, in insertion order
    timers,   \* the live setInterval countdown timers: [id, rid, count]
    conns,    \* the WebSocket connections: status, ws._playerId, ws._roomId,
              \* ws._rateLimiter
    now,      \* Date.now()
    client,   \* the Multiplayer module of one browser page and the events in
              \* flight to its socket
    out       \* what the last handler did: its kind, the events it sent and
              \* the phase changes it made

vars == <<rooms, timers, conns, now, client, out>>

----------------------------------------------------------------------------
(* shared/gameConfig.js *)

Unit == 1000

ARENA_WIDTH == 30
ARENA_DEPTH == 20
PLAYER_RADIUS == 600
PLAYER_SPAWN_OFFSET == 8
PROJECTILE_SPEED == 16
PROJECTILE_RADIUS == 250
PROJECTILE_LIFETIME == 3000
FIRE_COOLDOWN == 350
MAX_PLAYERS == 2
WIN_SCORE == 10
MATCH_DURATION == 180
COUNTDOWN_DURATION == 3
TICK_RATE == 20
HEARTBEAT_INTERVAL == 5000
HEARTBEAT_TIMEOUT == 15000

\* Math.PI, in thousandths of a radian
PI == 3142

\* null, for room.startTime and for the timer handles
NullTime == 0
NoTimer == 0

----------------------------------------------------------------------------
(* Bounds of the model *)

\* connections the server accepts in one behaviour
MaxConns == 3
\* projectiles alive at once in one room
MaxProjectiles == 2
\* match lengths the clock runs through in one behaviour
MaxMatches == 2
\* cooldowns the clock runs through in one match
MaxCooldowns == 9
\* steps inside a cooldown the clock takes in one behaviour
MaxShortSteps == 1
\* heartbeat intervals the clock runs through in one behaviour
MaxIntervals == 4

\* messages over the rate limit a socket receives in one window
MaxExcess == 2
\* cooldowns the clock runs through in a match of shots at the edge of reach
MaxReloads == 2
\* projectile lifetimes the clock runs through in one behaviour
MaxLifetimes == 2
\* rate-limit windows the clock runs through in one behaviour
MaxWindows == 3
\* seconds the clock runs through while the page reconnects
MaxRetrySeconds == 26
\* heartbeat intervals the clock runs through while the page plays
MaxBeats == 4
\* cooldowns the clock runs through in a match of volleys
MaxVolleys == 10

RoomIds == {"r1"}
Conns == 1..MaxConns

\* Date.now() when the server starts: later than every timeout, as the epoch
\* clock is
Epoch == HEARTBEAT_TIMEOUT + MATCH_DURATION * 1000

----------------------------------------------------------------------------
(* Map helpers: a Map is a sequence of records keyed by the field id *)

Idx(m, id) ==
    IF \E i \in DOMAIN m : m[i].id = id
    THEN CHOOSE i \in DOMAIN m : m[i].id = id
    ELSE 0

Has(m, id) == Idx(m, id) # 0

Get(m, id) == m[Idx(m, id)]

\* Map.set of a key already present keeps its place
Put(m, e) == [m EXCEPT ![Idx(m, e.id)] = e]

Del(m, id) == SelectSeq(m, LAMBDA e : e.id # id)

\* a handler that has sent nothing and changed no phase
Quiet == [msgs |-> <<>>, edges |-> <<>>]

\* the registry, the events sent and the phase changes made so far, as one
\* handler threads them
World == [rooms |-> rooms, timers |-> timers, msgs |-> <<>>, edges |-> <<>>]

\* the writes to a room's fields; a write that changes room.state is recorded
SetRoom(w, room) ==
    LET old == Get(w.rooms, room.id).state
    IN  [w EXCEPT !.rooms = Put(@, room),
                  !.edges = IF old # room.state
                            THEN Append(@, [rid |-> room.id, from |-> old,
                                            to |-> room.state])
                            ELSE @]

Emit(w, ev) == [w EXCEPT !.msgs = Append(@, ev)]

\* broadcast(roomId, data): nothing when the room is gone
broadcast(w, rid, ev) == IF Has(w.rooms, rid) THEN Emit(w, ev) ELSE w

\* clearInterval(handle); clearInterval(null) does nothing
clearInterval(w, h) == [w EXCEPT !.timers = {t \in @ : t.id # h}]

\* setInterval returns a handle no live timer has
NewTimerId(w) == CHOOSE h \in 1..(Cardinality(w.timers) + 1) :
                     \A t \in w.timers : t.id # h

\* the record of one handler run: its kind, its connection, the events sent
\* and the phase changes made
Note(ev, c, w) == [ev |-> ev, c |-> c, msgs |-> w.msgs, edges |-> w.edges]

\* uuidv4().slice(0, 8) for the player a connection adds: a fresh id, one per
\* connection
NewPlayerId(ws) == ws

----------------------------------------------------------------------------
(* RoomManager *)

NewRoom(rid) ==
    [id |-> rid, players |-> <<>>, projectiles |-> <<>>, state |-> "waiting",
     matchTimer |-> NoTimer, countdownTimer |-> NoTimer,
     startTime |-> NullTime, timeRemaining |-> MATCH_DURATION * 1000]

getRoom(w, rid) ==
    IF Has(w.rooms, rid) THEN w
    ELSE [w EXCEPT !.rooms = Append(@, NewRoom(rid))]

\* the capacity test one player too late
IsFullAboveCap(room) == Len(room.players) > MAX_PLAYERS

\* room.players.size >= CONFIG.MAX_PLAYERS
IsFull(room) == Len(room.players) >= MAX_PLAYERS

\* a player object with the character and spawn of the first player,
\* whatever the index
NewPlayerFirstRole(ws, playerIndex) ==
    [id |-> NewPlayerId(ws),
     characterId |-> "cupid_prime",
     x |-> -PLAYER_SPAWN_OFFSET * Unit,
     z |-> 0,
     rotation |-> 0,
     score |-> 0,
     ws |-> ws,
     lastHeartbeat |-> now,
     lastFireTime |-> 0]

\* the player object of addPlayer, for the playerIndex-th player of a room
NewPlayer(ws, playerIndex) ==
    [id |-> NewPlayerId(ws),
     characterId |-> IF playerIndex = 0 THEN "cupid_prime" ELSE "dark_cupid",
     x |-> IF playerIndex = 0 THEN -PLAYER_SPAWN_OFFSET * Unit
                              ELSE PLAYER_SPAWN_OFFSET * Unit,
     z |-> 0,
     rotation |-> IF playerIndex = 0 THEN 0 ELSE PI,
     score |-> 0,
     ws |-> ws,
     lastHeartbeat |-> now,
     lastFireTime |-> 0]

\* addPlayer once getRoom has run: w holds the room
AddToRoom(w, room, ws) ==
    IF IsFull(room)
    THEN [w |-> w, ret |-> <<>>]
    ELSE [w |-> SetRoom(w, [room EXCEPT !.players =
                               Append(@, NewPlayer(ws, Len(room.players)))]),
          ret |-> <<NewPlayer(ws, Len(room.players))>>]

\* the result: the world after the call and ret, <<player>> or <<>> for null
addPlayer(w, rid, ws) ==
    AddToRoom(getRoom(w, rid), Get(getRoom(w, rid).rooms, rid), ws)

\* if (room.matchTimer) { clearInterval; room.matchTimer = null }
ClearMatchTimer(w, rid) ==
    LET room == Get(w.rooms, rid)
    IN  IF room.matchTimer # NoTimer
        THEN SetRoom(clearInterval(w, room.matchTimer),
                     [room EXCEPT !.matchTimer = NoTimer])
        ELSE w

\* if (room.countdownTimer) { clearInterval; room.countdownTimer = null }
ClearCountdownTimer(w, rid) ==
    LET room == Get(w.rooms, rid)
    IN  IF room.countdownTimer # NoTimer
        THEN SetRoom(clearInterval(w, room.countdownTimer),
                     [room EXCEPT !.countdownTimer = NoTimer])
        ELSE w

\* a stopMatch that clears the match timer and leaves the countdown running
stopMatchKeepCountdown(w, rid) ==
    IF ~Has(w.rooms, rid) THEN w
    ELSE ClearMatchTimer(w, rid)

stopMatch(w, rid) ==
    IF ~Has(w.rooms, rid) THEN w
    ELSE ClearCountdownTimer(ClearMatchTimer(w, rid), rid)

\* a room that is never found empty
IsEmptyNever(room) == Len(room.players) < 0

\* room.players.size === 0
IsEmpty(room) == Len(room.players) = 0

\* a departure that aborts a match only once it is playing
MatchActivePlayingOnly(room) == room.state = "playing"

\* room.state === 'playing' || room.state === 'countdown'
MatchActive(room) == room.state = "playing" \/ room.state = "countdown"

\* room.state = 'waiting'; room.projectiles.clear()
AbortMatch(w, rid) ==
    SetRoom(w, [Get(w.rooms, rid) EXCEPT !.state = "waiting",
                                         !.projectiles = <<>>])

\* a removal that stops the match of an emptied room and keeps the room
AfterDeleteKeepRoom(w, rid) ==
    IF IsEmpty(Get(w.rooms, rid))
    THEN stopMatch(w, rid)
    ELSE IF MatchActive(Get(w.rooms, rid))
    THEN AbortMatch(stopMatch(w, rid), rid)
    ELSE w

\* a removal that lets a running match go on
AfterDeleteInMatch(w, rid) ==
    IF IsEmpty(Get(w.rooms, rid))
    THEN [stopMatch(w, rid) EXCEPT !.rooms = Del(@, rid)]
    ELSE IF Get(w.rooms, rid).state = "countdown"
    THEN AbortMatch(stopMatch(w, rid), rid)
    ELSE w

\* removePlayer after room.players.delete(playerId)
AfterDelete(w, rid) ==
    IF IsEmpty(Get(w.rooms, rid))
    THEN [stopMatch(w, rid) EXCEPT !.rooms = Del(@, rid)]
    ELSE IF MatchActive(Get(w.rooms, rid))
    THEN AbortMatch(stopMatch(w, rid), rid)
    ELSE w

removePlayer(w, rid, pid) ==
    IF ~Has(w.rooms, rid) THEN w
    ELSE AfterDelete(SetRoom(w, [Get(w.rooms, rid) EXCEPT !.players = Del(@, pid)]),
                     rid)

\* the reset loop of startCountdown: the i-th player in iteration order
ResetPlayers(ps) ==
    [i \in DOMAIN ps |->
        [ps[i] EXCEPT !.score = 0,
                      !.x = IF i = 1 THEN -PLAYER_SPAWN_OFFSET * Unit
                                     ELSE PLAYER_SPAWN_OFFSET * Unit,
                      !.z = 0,
                      !.rotation = IF i = 1 THEN 0 ELSE PI]]

\* startCountdown with h the handle setInterval returns; the timer starts
\* with count = COUNTDOWN_DURATION
CountdownFrom(w, rid, h) ==
    [broadcast(SetRoom(w, [Get(w.rooms, rid) EXCEPT !.state = "countdown",
                                                    !.projectiles = <<>>,
                                                    !.players = ResetPlayers(@),
                                                    !.countdownTimer = h]),
               rid,
               [type |-> "match_countdown", rid |-> rid,
                count |-> COUNTDOWN_DURATION])
        EXCEPT !.timers = @ \cup
                   {[id |-> h, rid |-> rid, count |-> COUNTDOWN_DURATION]}]

startCountdown(w, rid) ==
    IF ~Has(w.rooms, rid) THEN w
    ELSE CountdownFrom(w, rid, NewTimerId(w))

\* a start of the match that leaves the match clock as it was
startMatchKeepClock(w, rid) ==
    IF ~Has(w.rooms, rid) THEN w
    ELSE broadcast(SetRoom(w, [Get(w.rooms, rid) EXCEPT !.state = "playing"]),
                   rid, [type |-> "match_start", rid |-> rid])

startMatch(w, rid) ==
    IF ~Has(w.rooms, rid) THEN w
    ELSE broadcast(SetRoom(w, [Get(w.rooms, rid) EXCEPT
                                  !.state = "playing",
                                  !.startTime = now,
                                  !.timeRemaining = MATCH_DURATION * 1000]),
                   rid, [type |-> "match_start", rid |-> rid])

\* getPlayerList of the server: id, characterId, score of every player
getPlayerList(w, rid) ==
    IF ~Has(w.rooms, rid) THEN <<>>
    ELSE LET ps == Get(w.rooms, rid).players
         IN  [i \in DOMAIN ps |->
                 [id |-> ps[i].id, characterId |-> ps[i].characterId,
                  score |-> ps[i].score]]

----------------------------------------------------------------------------
(* JavaScript values as a message carries them: typeof and isFinite decide *)

Num(v) == [type |-> "number", finite |-> TRUE, v |-> v]
NaN == [type |-> "number", finite |-> FALSE, v |-> 0]
Str == [type |-> "string", finite |-> FALSE, v |-> 0]

\* a check of the type alone, which lets NaN and Infinity through
IsNumber(a) == a.type = "number"

\* typeof a === 'number' && isFinite(a)
IsFiniteNumber(a) == a.type = "number" /\ a.finite

\* numbers are kept to the thousandth; Beyond stands for a finite number so
\* large that its square is above Number.MAX_VALUE, such as 1e200
Beyond == 1000000000
Huge == [type |-> "number", finite |-> TRUE, v |-> Beyond]
IsBeyond(a) == a.v >= Beyond \/ a.v <= -Beyond

Max(a, b) == IF a >= b THEN a ELSE b
Min(a, b) == IF a <= b THEN a ELSE b
Abs(a) == IF a < 0 THEN -a ELSE a

RECURSIVE SqrtBetween(_, _, _)
SqrtBetween(n, lo, hi) ==
    IF lo >= hi THEN lo
    ELSE LET mid == (lo + hi + 1) \div 2
         IN  IF mid * mid <= n THEN SqrtBetween(n, mid, hi)
                               ELSE SqrtBetween(n, lo, mid - 1)

\* Math.sqrt on fixed-point squares: the largest r with r * r <= n
Sqrt(n) == SqrtBetween(n, 0, Min(n, 46340))

----------------------------------------------------------------------------
(* RoomManager: intents *)

updatePlayerPosition(w, rid, pid, x, z, rotation) ==
    IF ~Has(w.rooms, rid) THEN w
    ELSE LET room == Get(w.rooms, rid)
         IN  IF ~Has(room.players, pid) THEN w
             ELSE IF ~(IsFiniteNumber(x) /\ IsFiniteNumber(z) /\ IsFiniteNumber(rotation))
             THEN w
             ELSE LET player == Get(room.players, pid)
                      hw == (ARENA_WIDTH * Unit) \div 2 - PLAYER_RADIUS
                      hd == (ARENA_DEPTH * Unit) \div 2 - PLAYER_RADIUS
                      p1 == [player EXCEPT !.x = Max(-hw, Min(hw, x.v)),
                                           !.z = Max(-hd, Min(hd, z.v)),
                                           !.rotation = rotation.v]
                  IN  SetRoom(w, [room EXCEPT !.players = Put(@, p1)])

\* uuidv4().slice(0, 8) for a projectile: fresh, as the shooter and the
\* instant of the shot are (the cooldown separates a player's shots)
NewProjectileId(pid) == <<pid, now>>

\* a cooldown that lets every later shot through
OnCooldownNever(player) == now - player.lastFireTime < 0

\* now - player.lastFireTime < CONFIG.FIRE_COOLDOWN
OnCooldown(player) == now - player.lastFireTime < FIRE_COOLDOWN

\* the projectile of a shot along the unit vector (nx, nz), set in the room
\* r1 of the world w1
Launch(w1, r1, player, pid, nx, nz) ==
    LET projectile ==
            [id |-> NewProjectileId(pid),
             ownerId |-> pid,
             x |-> player.x + nx,
             z |-> player.z + nz,
             vx |-> nx * PROJECTILE_SPEED,
             vz |-> nz * PROJECTILE_SPEED,
             createdAt |-> now]
    IN  [w |-> SetRoom(w1, [r1 EXCEPT !.projectiles = Append(@, projectile)]),
         ret |-> <<projectile>>]

\* the normalisation of the direction and the shot, after the cooldown check
\* and lastFireTime = now left the room r1 in the world w1: the squares of a
\* number beyond the range overflow to Infinity, len is Infinity, which is
\* not below 0.01, and dirX / len and dirZ / len are 0
Aimed(w1, r1, player, pid, dirX, dirZ) ==
    IF IsBeyond(dirX) \/ IsBeyond(dirZ)
    THEN Launch(w1, r1, player, pid, 0, 0)
    ELSE LET len == Sqrt(dirX.v * dirX.v + dirZ.v * dirZ.v)
         IN  IF len < Unit \div 100 THEN [w |-> w1, ret |-> <<>>]
             ELSE Launch(w1, r1, player, pid,
                         (dirX.v * Unit) \div len, (dirZ.v * Unit) \div len)

\* the result: the world after the call and ret, <<projectile>> or <<>> for null
fireProjectile(w, rid, pid, dirX, dirZ) ==
    IF ~Has(w.rooms, rid) THEN [w |-> w, ret |-> <<>>]
    ELSE LET room == Get(w.rooms, rid)
         IN  IF room.state # "playing" THEN [w |-> w, ret |-> <<>>]
             ELSE IF ~Has(room.players, pid) THEN [w |-> w, ret |-> <<>>]
             ELSE IF ~(IsFiniteNumber(dirX) /\ IsFiniteNumber(dirZ))
             THEN [w |-> w, ret |-> <<>>]
             ELSE LET player == Get(room.players, pid)
                  IN  IF OnCooldown(player)
                      THEN [w |-> w, ret |-> <<>>]
                      ELSE Aimed(SetRoom(w, [room EXCEPT !.players =
                                     Put(@, [player EXCEPT !.lastFireTime = now])]),
                                 [room EXCEPT !.players =
                                     Put(@, [player EXCEPT !.lastFireTime = now])],
                                 player, pid, dirX, dirZ)

\* a rematch granted in every phase
handleRematchAnyPhase(w, rid) ==
    IF ~Has(w.rooms, rid) THEN [w |-> w, ret |-> FALSE]
    ELSE [w |-> SetRoom(w, [Get(w.rooms, rid) EXCEPT !.projectiles = <<>>,
                                                     !.state = "waiting"]),
          ret |-> TRUE]

\* a rematch that restarts the countdown without going through waiting
handleRematchToCountdown(w, rid) ==
    IF ~Has(w.rooms, rid) THEN [w |-> w, ret |-> FALSE]
    ELSE LET room == Get(w.rooms, rid)
         IN  IF room.state # "ended" THEN [w |-> w, ret |-> FALSE]
             ELSE [w |-> SetRoom(w, [room EXCEPT !.projectiles = <<>>,
                                                 !.state = "countdown"]),
                   ret |-> TRUE]

handleRematch(w, rid) ==
    IF ~Has(w.rooms, rid) THEN [w |-> w, ret |-> FALSE]
    ELSE LET room == Get(w.rooms, rid)
         IN  IF room.state # "ended" THEN [w |-> w, ret |-> FALSE]
             ELSE [w |-> SetRoom(w, [room EXCEPT !.projectiles = <<>>,
                                                 !.state = "waiting"]),
                   ret |-> TRUE]

\* a heartbeat that looks its room up with getRoom, which creates it
heartbeatCreating(w, rid, pid) ==
    IF Has(Get(getRoom(w, rid).rooms, rid).players, pid)
    THEN SetRoom(w, [Get(w.rooms, rid) EXCEPT !.players =
             Put(@, [Get(@, pid) EXCEPT !.lastHeartbeat = now])])
    ELSE getRoom(w, rid)

heartbeat(w, rid, pid) ==
    IF ~Has(w.rooms, rid) THEN w
    ELSE LET room == Get(w.rooms, rid)
         IN  IF Has(room.players, pid)
             THEN SetRoom(w, [room EXCEPT !.players =
                     Put(@, [Get(room.players, pid) EXCEPT !.lastHeartbeat = now])])
             ELSE w

\* a player stale from the instant the timeout is reached
IsStaleAtTimeout(player) == now - player.lastHeartbeat >= HEARTBEAT_TIMEOUT

\* now - player.lastHeartbeat > CONFIG.HEARTBEAT_TIMEOUT
IsStale(player) == now - player.lastHeartbeat > HEARTBEAT_TIMEOUT

\* the stale players, room by room and player by player in iteration order
cleanStale(w) ==
    LET StaleOf(room) ==
            LET ps == SelectSeq(room.players, IsStale)
            IN  [i \in DOMAIN ps |->
                    [roomId |-> room.id, playerId |-> ps[i].id, ws |-> ps[i].ws]]
        Flat[i \in 0..Len(w.rooms)] ==
            IF i = 0 THEN <<>> ELSE Flat[i - 1] \o StaleOf(w.rooms[i])
    IN  Flat[Len(w.rooms)]

getActiveRooms(w) == [i \in DOMAIN w.rooms |-> w.rooms[i].id]

----------------------------------------------------------------------------
(* RoomManager: the simulation step *)

\* proj.x += proj.vx * dt; proj.z += proj.vz * dt, with dt = 1 / TICK_RATE
Integrate(proj) ==
    [proj EXCEPT !.x = @ + proj.vx \div TICK_RATE,
                 !.z = @ + proj.vz \div TICK_RATE]

\* Math.abs(proj.x) > hw || Math.abs(proj.z) > hd
OutOfBounds(proj) ==
    \/ Abs(proj.x) > (ARENA_WIDTH * Unit) \div 2
    \/ Abs(proj.z) > (ARENA_DEPTH * Unit) \div 2

\* now - proj.createdAt > CONFIG.PROJECTILE_LIFETIME
LifetimeExpired(proj) == now - proj.createdAt > PROJECTILE_LIFETIME

\* a hit from the distance of the two radii on
HitsAtSum(proj, p) ==
    /\ p.id # proj.ownerId
    /\ (proj.x - p.x) * (proj.x - p.x) + (proj.z - p.z) * (proj.z - p.z)
           <= (PLAYER_RADIUS + PROJECTILE_RADIUS) * (PLAYER_RADIUS + PROJECTILE_RADIUS)

\* pid !== proj.ownerId and dist < hitDist: Math.sqrt(dx*dx + dz*dz) < hitDist,
\* compared on the squares
Hits(proj, p) ==
    /\ p.id # proj.ownerId
    /\ (proj.x - p.x) * (proj.x - p.x) + (proj.z - p.z) * (proj.z - p.z)
           < (PLAYER_RADIUS + PROJECTILE_RADIUS) * (PLAYER_RADIUS + PROJECTILE_RADIUS)

\* the first player, in iteration order, that the projectile hits; 0 for none
FirstHit(ps, proj) ==
    IF \E i \in DOMAIN ps : Hits(proj, ps[i])
    THEN CHOOSE i \in DOMAIN ps :
             Hits(proj, ps[i]) /\ \A j \in DOMAIN ps : Hits(proj, ps[j]) => i <= j
    ELSE 0

\* if (shooter) shooter.score++
Score(ps, shooterId) ==
    IF Has(ps, shooterId)
    THEN Put(ps, [Get(ps, shooterId) EXCEPT !.score = @ + 1])
    ELSE ps

\* a win one point short of WIN_SCORE
WonEarly(ps, shooterId) ==
    Has(ps, shooterId) /\ Get(ps, shooterId).score >= WIN_SCORE - 1

\* shooter && shooter.score >= CONFIG.WIN_SCORE
Won(ps, shooterId) ==
    Has(ps, shooterId) /\ Get(ps, shooterId).score >= WIN_SCORE

\* the hit branch: the score, the hit pushed, the projectile expired, the win
\* condition; ps are the players after the score
RecordHit(a, proj, targetId, ps) ==
    [room |-> [a.room EXCEPT !.players = ps,
                             !.state = IF Won(ps, proj.ownerId) THEN "ended" ELSE @],
     hits |-> Append(a.hits,
                 [projectileId |-> proj.id, shooterId |-> proj.ownerId,
                  targetId |-> targetId, x |-> proj.x, z |-> proj.z]),
     expired |-> Append(a.expired, proj.id)]

\* a player loop that drops the hit of a projectile whose owner has left
CollideOwned(a, proj, t) ==
    IF t = 0 \/ ~Has(a.room.players, proj.ownerId) THEN a
    ELSE RecordHit(a, proj, a.room.players[t].id,
                   Score(a.room.players, proj.ownerId))

\* the loop over the players for a projectile in flight; t is the first
\* player hit, 0 for none
Collide(a, proj, t) ==
    IF t = 0 THEN a
    ELSE RecordHit(a, proj, a.room.players[t].id,
                   Score(a.room.players, proj.ownerId))

\* a loop body that looks for a hit before it looks at the expiry
AfterIntegrateHitFirst(a, proj) ==
    IF FirstHit(a.room.players, proj) # 0
    THEN Collide(a, proj, FirstHit(a.room.players, proj))
    ELSE IF OutOfBounds(proj) \/ LifetimeExpired(proj)
    THEN [a EXCEPT !.expired = Append(@, proj.id)]
    ELSE a

\* the body of the projectile loop after the integration of proj
AfterIntegrate(a, proj) ==
    IF OutOfBounds(proj) \/ LifetimeExpired(proj)
    THEN [a EXCEPT !.expired = Append(@, proj.id)]
    ELSE Collide(a, proj, FirstHit(a.room.players, proj))

\* one iteration of the projectile loop; a carries the room, the hits and the
\* ids to remove
TickProjectile(a, i) ==
    AfterIntegrate([a EXCEPT !.room.projectiles[i] = Integrate(@)],
                   Integrate(a.room.projectiles[i]))

RECURSIVE TickProjectiles(_, _)
TickProjectiles(a, i) ==
    IF i > Len(a.room.projectiles) THEN a
    ELSE TickProjectiles(TickProjectile(a, i), i + 1)

\* for (const id of expiredProjectiles) room.projectiles.delete(id)
RemoveExpired(room, expired) ==
    [room EXCEPT !.projectiles =
        SelectSeq(@, LAMBDA p : \A k \in DOMAIN expired : expired[k] # p.id)]

\* a match clock that has to pass zero to end the match
TimeUpBelowZero(timeRemaining, state) == timeRemaining < 0 /\ state = "playing"

\* room.timeRemaining <= 0 && room.state === 'playing'
TimeUp(timeRemaining, state) == timeRemaining <= 0 /\ state = "playing"

\* room.timeRemaining = timeRemaining, and the end of the match on time
SetTimeRemaining(room, timeRemaining) ==
    [room EXCEPT !.timeRemaining = timeRemaining,
                 !.state = IF TimeUp(timeRemaining, @) THEN "ended" ELSE @]

\* the timer update of tick
UpdateTimer(room) ==
    IF room.startTime # NullTime
    THEN SetTimeRemaining(room,
             Max(0, MATCH_DURATION * 1000 - (now - room.startTime)))
    ELSE room

\* tick after the projectile loop, which left a
AfterProjectiles(w, a) ==
    [w |-> SetRoom(w, UpdateTimer(RemoveExpired(a.room, a.expired))),
     hits |-> a.hits]

\* a step of the simulation that runs in every phase
tickAnyPhase(w, rid) ==
    IF ~Has(w.rooms, rid) THEN [w |-> w, hits |-> <<>>]
    ELSE AfterProjectiles(w,
             TickProjectiles([room |-> Get(w.rooms, rid), hits |-> <<>>,
                              expired |-> <<>>], 1))

\* the result: the world after the step and the hits of the step
tick(w, rid) ==
    IF ~Has(w.rooms, rid) THEN [w |-> w, hits |-> <<>>]
    ELSE IF Get(w.rooms, rid).state # "playing" THEN [w |-> w, hits |-> <<>>]
    ELSE AfterProjectiles(w,
             TickProjectiles([room |-> Get(w.rooms, rid), hits |-> <<>>,
                              expired |-> <<>>], 1))

\* Math.ceil of a time kept in milliseconds, in seconds
CeilSeconds(ms) == (ms + 999) \div 1000

\* <<state>>, or <<>> for null
getState(w, rid) ==
    IF ~Has(w.rooms, rid) THEN <<>>
    ELSE LET room == Get(w.rooms, rid)
         IN  <<[players |-> [i \in DOMAIN room.players |->
                    [id |-> room.players[i].id,
                     characterId |-> room.players[i].characterId,
                     x |-> room.players[i].x, z |-> room.players[i].z,
                     rotation |-> room.players[i].rotation,
                     score |-> room.players[i].score]],
                projectiles |-> [i \in DOMAIN room.projectiles |->
                    [id |-> room.projectiles[i].id,
                     ownerId |-> room.projectiles[i].ownerId,
                     x |-> room.projectiles[i].x, z |-> room.projectiles[i].z,
                     vx |-> room.projectiles[i].vx, vz |-> room.projectiles[i].vz]],
                state |-> room.state,
                timeRemaining |-> CeilSeconds(room.timeRemaining)]>>

\* null, for winnerId
NoPlayer == 0

\* a winner who is whoever joined first
WinnerFirst(ps) == IF ps = <<>> THEN NoPlayer ELSE ps[1].id

\* the winnerId/highScore loop: the first player holding the highest score
Winner(ps) ==
    IF ps = <<>> THEN NoPlayer
    ELSE ps[CHOOSE i \in DOMAIN ps :
                /\ \A j \in DOMAIN ps : ps[j].score <= ps[i].score
                /\ \A j \in DOMAIN ps : j < i => ps[j].score < ps[i].score].id

\* scores.length === 2 && scores[0] === scores[1]
IsTie(players) == Len(players) = 2 /\ players[1].score = players[2].score

\* the object getMatchResults returns, from the players pushed
Results(players, timeRemaining) ==
    [players |-> players,
     winnerId |-> IF IsTie(players) THEN NoPlayer ELSE Winner(players),
     isTie |-> IsTie(players),
     reason |-> IF timeRemaining <= 0 THEN "timeout" ELSE "score"]

\* <<results>>, or <<>> for null
getMatchResults(w, rid) ==
    IF ~Has(w.rooms, rid) THEN <<>>
    ELSE <<Results(getPlayerList(w, rid), Get(w.rooms, rid).timeRemaining)>>

----------------------------------------------------------------------------
(* The server's handlers *)

\* the rate limiter of a socket: ws._rateLimiter, unset until the first
\* message
MAX_MESSAGES_PER_SECOND == 60
RATE_WINDOW == 1000
NoRateLimiter == [count |-> 0, resetTime |-> NullTime]

\* getRateLimiter(ws): made on first use, restarted once its window is over
getRateLimiter(rl) ==
    IF rl.resetTime = NullTime \/ now > rl.resetTime
    THEN [count |-> 0, resetTime |-> now + RATE_WINDOW]
    ELSE rl

\* ++rl.count
Counted(rl) == [rl EXCEPT !.count = @ + 1]

\* the message goes on to JSON.parse: not (rl.count > MAX_MESSAGES_PER_SECOND)
Admitted(rl) == ~(rl.count > MAX_MESSAGES_PER_SECOND)

\* the module state of multiplayer.js as the page loads it, and of the game
\* loop of the page: null is 0 for ids and timers and "" for names; a timer
\* is the time it is due at, frame the time of the next animation frame of a
\* display that refreshes every period ms; tries counts the reconnects since the last open
\* and stopped tells that disconnect() was called
NoClient ==
    [ws |-> 0, readyState |-> "none", roomId |-> "",
     localPlayerId |-> 0, localCharacterId |-> "",
     connected |-> FALSE, heartbeatTimer |-> 0,
     reconnectTimer |-> 0, reconnectAttempts |-> 0,
     gameState |-> "waiting", frame |-> 0, period |-> 0,
     inbox |-> <<>>, tries |-> 0, stopped |-> FALSE]

\* what the page reads of an event
Wire(m) ==
    [type |-> m.type,
     playerId |-> IF "playerId" \in DOMAIN m THEN m.playerId ELSE 0,
     characterId |-> IF "characterId" \in DOMAIN m THEN m.characterId ELSE ""]

\* send(ws, data) reaches the socket ws; broadcast(roomId, data, exclude)
\* reaches the sockets of the players of the room but the excluded one
Reaches(m, ws, w) ==
    IF "to" \in DOMAIN m THEN m.to = ws
    ELSE /\ Has(w.rooms, m.rid)
         /\ Has(Get(w.rooms, m.rid).players, NewPlayerId(ws))
         /\ "except" \in DOMAIN m => m.except # NewPlayerId(ws)

\* the events a handler sent to the socket of the page cl, while the page
\* has one, are in flight to it
Posted(cl, w) ==
    IF cl.readyState \notin {"connecting", "open", "closing"} THEN cl
    ELSE [cl EXCEPT !.inbox =
             @ \o [k \in DOMAIN SelectSeq(w.msgs, LAMBDA m : Reaches(m, cl.ws, w)) |->
                      Wire(SelectSeq(w.msgs, LAMBDA m : Reaches(m, cl.ws, w))[k])]]

\* what a handler leaves: the registry and the timers of w, the connections
\* cs, the events it sent to the page in flight; the clock does not move
\* inside a handler; cl is the page as the handler finds it
ServedTo(ev, c, w, cs, cl) ==
    /\ rooms' = w.rooms
    /\ timers' = w.timers
    /\ conns' = cs
    /\ client' = Posted(cl, w)
    /\ out' = Note(ev, c, w)
    /\ UNCHANGED now

Served(ev, c, w, cs) == ServedTo(ev, c, w, cs, client)

\* a handler that leaves the connections as they are
Handled(ev, c, w) == Served(ev, c, w, conns)

\* the connection the next accepted socket gets
NextConn == CHOOSE c \in Conns : conns[c].status = "new" /\
                \A d \in Conns : d < c => conns[d].status # "new"

\* send(ws, player_joined) and broadcast(roomId, player_joined, player.id)
NotifyJoined(w, rid, c, player) ==
    broadcast(Emit(w, [type |-> "player_joined", to |-> c,
                       playerId |-> player.id,
                       characterId |-> player.characterId,
                       players |-> getPlayerList(w, rid)]),
              rid,
              [type |-> "player_joined", rid |-> rid, except |-> player.id,
               playerId |-> player.id,
               characterId |-> player.characterId,
               players |-> getPlayerList(w, rid)])

\* auto-start when 2 players; w holds the room, as getRoom leaves it
AutoStart(w, rid) ==
    IF Len(Get(w.rooms, rid).players) = MAX_PLAYERS
       /\ Get(w.rooms, rid).state = "waiting"
    THEN startCountdown(w, rid)
    ELSE w

\* the connection handler after r = addPlayer(roomId, ws)
Accept(c, rid, r) ==
    IF r.ret = <<>>
    THEN \* ws.close() of a socket that never got its handlers: its close
         \* event reaches no room
         Served("connect", c, Emit(r.w, [type |-> "room_full", to |-> c]),
                [conns EXCEPT ![c] =
                    [status |-> "closed", playerId |-> 0, roomId |-> "",
                     rateLimiter |-> NoRateLimiter]])
    ELSE Served("connect", c,
                AutoStart(getRoom(NotifyJoined(r.w, rid, c, r.ret[1]), rid), rid),
                [conns EXCEPT ![c] =
                    [status |-> "open", playerId |-> r.ret[1].id, roomId |-> rid,
                     rateLimiter |-> NoRateLimiter]])

\* wss.on('connection'): addPlayer, room_full or player_joined, auto-start;
\* the sockets of a behaviour are few enough for the per-IP limit to admit
\* each of them
Connect(rid) ==
    /\ \E c \in Conns : conns[c].status = "new"
    /\ Accept(NextConn, rid, addPlayer(World, rid, NextConn))

\* broadcast(roomId, player_left) after removePlayer
NotifyLeft(w, rid, pid) ==
    broadcast(w, rid,
        [type |-> "player_left", rid |-> rid, playerId |-> pid,
         players |-> getPlayerList(w, rid)])

\* ws.on('close'): the socket has closed, by the client or after ws.close()
Close(c) ==
    /\ conns[c].status \in {"open", "closing"}
    /\ Served("close", c,
              IF conns[c].playerId # 0
              THEN NotifyLeft(removePlayer(World, conns[c].roomId, conns[c].playerId),
                              conns[c].roomId, conns[c].playerId)
              ELSE World,
              [conns EXCEPT ![c].status = "closed"])

\* the else branch of the callback: clearInterval, countdownTimer = null,
\* startMatch
CountdownDone(w, rid) ==
    IF Has(w.rooms, rid)
    THEN startMatch(
             SetRoom(clearInterval(w, Get(w.rooms, rid).countdownTimer),
                     [Get(w.rooms, rid) EXCEPT !.countdownTimer = NoTimer]),
             rid)
    ELSE w

\* the callback after count--
Countdown(w, rid, count) ==
    IF count > 0
    THEN broadcast(w, rid,
             [type |-> "match_countdown", rid |-> rid, count |-> count])
    ELSE CountdownDone(w, rid)

\* the setInterval callback of startCountdown
CountdownTimer(h) ==
    \E t \in timers :
        /\ t.id = h
        /\ Handled("countdown_timer", 0,
               Countdown([World EXCEPT !.timers =
                             (@ \ {t}) \cup {[t EXCEPT !.count = @ - 1]}],
                         t.rid, t.count - 1))

----------------------------------------------------------------------------
(* The server's handlers: messages, game loop, stale scan *)

\* the message handlers are registered for an accepted connection, and a
\* socket the server has started closing still delivers what the client sent;
\* the message actions are the messages the rate limiter admits and
\* JSON.parse accepts: the others reach no case of the switch
Receiving(c) == conns[c].status \in {"open", "closing"} /\ conns[c].playerId # 0

\* case MOVE
MoveMsg(c, m) ==
    /\ Receiving(c)
    /\ Handled("move", c,
           updatePlayerPosition(World, conns[c].roomId, conns[c].playerId,
                                m.x, m.z, m.rotation))

\* case FIRE after r = fireProjectile(rid, pid, dirX, dirZ); a room holds
\* at most MaxProjectiles projectiles
Fired(c, rid, r) ==
    /\ r.ret # <<>> => Len(Get(rooms, rid).projectiles) < MaxProjectiles
    /\ Handled("fire", c,
           IF r.ret # <<>>
           THEN broadcast(r.w, rid,
                    [type |-> "projectile_spawn", rid |-> rid,
                     projectile |-> [f \in {"id", "ownerId", "x", "z", "vx", "vz"}
                                        |-> r.ret[1][f]]])
           ELSE r.w)

\* case FIRE
FireMsg(c, m) ==
    /\ Receiving(c)
    /\ Fired(c, conns[c].roomId,
             fireProjectile(World, conns[c].roomId, conns[c].playerId,
                            m.dirX, m.dirZ))

\* case HEARTBEAT
HeartbeatMsg(c) ==
    /\ Receiving(c)
    /\ Handled("heartbeat", c, heartbeat(World, conns[c].roomId, conns[c].playerId))

\* a rematch that starts the countdown whatever the number of players
RestartAnySize(w, rid) == startCountdown(w, rid)

\* case REMATCH after handleRematch returned true; w holds the room, as
\* getRoom leaves it
Restart(w, rid) ==
    IF Len(Get(w.rooms, rid).players) = MAX_PLAYERS
    THEN startCountdown(w, rid)
    ELSE w

\* case REMATCH after r = handleRematch(rid)
Rematched(c, rid, r) ==
    Handled("rematch", c, IF r.ret THEN Restart(getRoom(r.w, rid), rid) ELSE r.w)

\* case REMATCH
RematchMsg(c) ==
    /\ Receiving(c)
    /\ Rematched(c, conns[c].roomId, handleRematch(World, conns[c].roomId))

\* JSON.parse(raw): the object the text denotes, or a throw; a raw message
\* is its text as far as the handler reads it: whether it parses, and the
\* fields of the object
Parses(raw) == raw.json

\* the switch on msg.type, for the player pid of the room rid
Dispatch(w, rid, pid, msg) ==
    CASE msg.type = "move" ->
             updatePlayerPosition(w, rid, pid, msg.x, msg.z, msg.rotation)
      [] msg.type = "fire" ->
             LET r == fireProjectile(w, rid, pid, msg.dirX, msg.dirZ)
             IN  IF r.ret # <<>>
                 THEN broadcast(r.w, rid,
                          [type |-> "projectile_spawn", rid |-> rid,
                           projectile |->
                               [f \in {"id", "ownerId", "x", "z", "vx", "vz"}
                                   |-> r.ret[1][f]]])
                 ELSE r.w
      [] msg.type = "heartbeat" -> heartbeat(w, rid, pid)
      [] msg.type = "rematch" ->
             LET r == handleRematch(w, rid)
             IN  IF r.ret THEN Restart(getRoom(r.w, rid), rid) ELSE r.w
      [] OTHER -> w

\* ws.on('message') after rl = getRateLimiter(ws) and ++rl.count
Arrived(c, raw, rl, cl) ==
    ServedTo("message", c,
             IF Admitted(rl) /\ Parses(raw)
             THEN Dispatch(World, conns[c].roomId, conns[c].playerId, raw.msg)
             ELSE World,
             [conns EXCEPT ![c].rateLimiter = rl],
             cl)

Limited(c, raw, rl) == Arrived(c, raw, rl, client)

\* ws.on('message'), the rate limiter included; a socket receives at most
\* MaxExcess messages over the limit in one window
Message(c, raw) ==
    /\ Receiving(c)
    /\ Counted(getRateLimiter(conns[c].rateLimiter)).count
           <= MAX_MESSAGES_PER_SECOND + MaxExcess
    /\ Limited(c, raw, Counted(getRateLimiter(conns[c].rateLimiter)))

\* for (const hit of hits) broadcast(roomId, hit_confirm)
ConfirmHits(w, rid, hits) ==
    LET Sent[k \in 0..Len(hits)] ==
            IF k = 0 THEN w
            ELSE broadcast(Sent[k - 1], rid,
                     [type |-> "hit_confirm", rid |-> rid, hit |-> hits[k]])
    IN  Sent[Len(hits)]

\* if (room.state === 'ended'): match_end with the results, stopMatch
EndMatch(w, rid) ==
    IF Get(w.rooms, rid).state = "ended"
    THEN stopMatch(broadcast(w, rid,
                       [type |-> "match_end", rid |-> rid,
                        results |-> getMatchResults(w, rid)]),
                   rid)
    ELSE w

\* the playing branch of the game loop after r = tick(roomId)
AfterTick(r, rid) == EndMatch(ConfirmHits(r.w, rid, r.hits), rid)

\* broadcast(roomId, state_update) of state = getState(roomId); of the
\* snapshot, the event recorded keeps the phase and the time
SendState(w, rid, state) ==
    IF Len(Get(w.rooms, rid).players) > 0 /\ state # <<>>
    THEN broadcast(w, rid,
             [type |-> "state_update", rid |-> rid,
              state |-> state[1].state,
              timeRemaining |-> state[1].timeRemaining])
    ELSE w

\* broadcast state to all rooms with players
BroadcastState(w, rid) == SendState(w, rid, getState(w, rid))

\* a loop body that looks for the end of the match in ended rooms as well
LoopRoomEndedToo(w, rid) ==
    IF ~Has(w.rooms, rid) THEN w
    ELSE IF Get(w.rooms, rid).state \in {"playing", "ended"}
    THEN BroadcastState(AfterTick(tick(w, rid), rid), rid)
    ELSE BroadcastState(w, rid)

\* the body of the game loop for one room
LoopRoom(w, rid) ==
    IF ~Has(w.rooms, rid) THEN w
    ELSE IF Get(w.rooms, rid).state = "playing"
    THEN BroadcastState(AfterTick(tick(w, rid), rid), rid)
    ELSE BroadcastState(w, rid)

\* setInterval(..., tickInterval): every room of getActiveRooms(), in order
GameLoop ==
    LET ids == getActiveRooms(World)
        Loop[k \in 0..Len(ids)] ==
            IF k = 0 THEN World ELSE LoopRoom(Loop[k - 1], ids[k])
    IN  /\ Handled("game_loop", 0, Loop[Len(ids)])

\* the sockets of the stale players that ws.close() starts closing
Closing(stale) ==
    [c \in Conns |->
        IF conns[c].status = "open" /\ \E k \in DOMAIN stale : stale[k].ws = c
        THEN [conns[c] EXCEPT !.status = "closing"]
        ELSE conns[c]]

\* a scan that finds the stale players and leaves them in their rooms
EvictNone(w, stale) == w

\* the loop of the stale scan over stale = cleanStale()
Evict(w, stale) ==
    LET Loop[k \in 0..Len(stale)] ==
            IF k = 0 THEN w
            ELSE NotifyLeft(removePlayer(Loop[k - 1], stale[k].roomId,
                                         stale[k].playerId),
                            stale[k].roomId, stale[k].playerId)
    IN  Loop[Len(stale)]

\* setInterval(..., HEARTBEAT_INTERVAL): evict every stale player
StaleScan ==
    /\ Served("stale_scan", 0, Evict(World, cleanStale(World)),
              Closing(cleanStale(World)))

\* time passes between two handlers: d milliseconds, the clock staying
\* within max milliseconds of the start
ClockAdvance(d, max) ==
    /\ now + d <= Epoch + max
    /\ now' = now + d
    /\ out' = Note("clock", 0, Quiet)
    /\ UNCHANGED <<rooms, timers, conns, client>>

----------------------------------------------------------------------------
(* Inputs *)

\* the move of the attacker: to x = 9.8, which the clamp keeps, 1.8 units
\* beyond the second spawn
WinMoves ==
    {[x |-> Num(9800), z |-> Num(0), rotation |-> Num(PI)]}

\* the shot of the attacker: towards -x
WinFires ==
    {[dirX |-> Num(-1000), dirZ |-> Num(0)]}

\* a step of the clock shorter than FIRE_COOLDOWN
ShortStep == 300

\* the move of a duellist: to x = 9.8, 1.8 units beyond the second spawn

DuelMoves ==
    {[x |-> Num(9800), z |-> Num(0), rotation |-> Num(PI)]}

\* the shots of a duellist: along x, either way
DuelFires ==
    {[dirX |-> Num(1000), dirZ |-> Num(0)],
     [dirX |-> Num(-1000), dirZ |-> Num(0)]}

----------------------------------------------------------------------------

Init ==
    /\ rooms = <<>>
    /\ timers = {}
    /\ conns = [c \in Conns |-> [status |-> "new", playerId |-> 0, roomId |-> "",
                            rateLimiter |-> NoRateLimiter]]
    /\ now = Epoch
    /\ client = NoClient
    /\ out = Note("init", 0, Quiet)

TimerIds == 1..Cardinality(RoomIds)

(* The life of rooms: joins, leaves, evictions, rematches, the countdown and *)
(* the match clock, the clock stepping by whole matches                     *)
Next ==
    \/ \E rid \in RoomIds : Connect(rid)
    \/ \E c \in Conns : Close(c)
    \/ \E c \in Conns : HeartbeatMsg(c)
    \/ \E c \in Conns : RematchMsg(c)
    \/ \E h \in TimerIds : CountdownTimer(h)
    \/ GameLoop
    \/ StaleScan
    \/ ClockAdvance(MATCH_DURATION * 1000, MaxMatches * MATCH_DURATION * 1000)

Spec == Init /\ [][Next]_vars

\* some player of a playing room has just shot
JustShot ==
    \E i \in DOMAIN rooms :
        /\ rooms[i].state = "playing"
        /\ \E k \in DOMAIN rooms[i].players : rooms[i].players[k].lastFireTime = now

(* One match in which the first player attacks a standing second player:   *)
(* it steps next to the other and shoots at it, or shoots at the wall from  *)
(* its spawn; after a shot the clock steps by one cooldown, or by a match   *)
NextWin ==
    \/ Connect("r1")
    \/ \E h \in TimerIds : CountdownTimer(h)
    \/ \E m \in WinMoves : MoveMsg(1, m)
    \/ \E m \in WinFires : FireMsg(1, m)
    \/ GameLoop
    \/ JustShot /\ ClockAdvance(FIRE_COOLDOWN, MaxCooldowns * FIRE_COOLDOWN)
    \/ JustShot /\ ClockAdvance(MATCH_DURATION * 1000,
                                 MaxCooldowns * FIRE_COOLDOWN + MATCH_DURATION * 1000)

SpecWin == Init /\ [][NextWin]_vars

\* the player of connection c and the other player of its room stand 1.8
\* units apart along x: a shot of c along aim reaches the other in one step
PointBlank(c, aim) ==
    /\ Has(rooms, conns[c].roomId)
    /\ LET ps == Get(rooms, conns[c].roomId).players
       IN  /\ Has(ps, conns[c].playerId)
           /\ \E k \in DOMAIN ps :
                  /\ ps[k].id # conns[c].playerId
                  /\ ps[k].z = Get(ps, conns[c].playerId).z
                  /\ ps[k].x - Get(ps, conns[c].playerId).x = (aim.dirX.v * 18) \div 10

\* some room is playing
Playing == \E i \in DOMAIN rooms : rooms[i].state = "playing"

(* A duel at close range: players come and go, step to a spot 1.8 units    *)
(* from the second spawn, and shoot at the other player when it stands 1.8  *)
(* units away; during a match the clock steps inside a cooldown, or by a    *)
(* whole match                                                              *)
NextDuel ==
    \/ Connect("r1")
    \/ \E c \in Conns : Close(c)
    \/ \E h \in TimerIds : CountdownTimer(h)
    \/ \E c \in Conns, m \in DuelMoves : Playing /\ MoveMsg(c, m)
    \/ \E c \in Conns, m \in DuelFires : PointBlank(c, m) /\ FireMsg(c, m)
    \/ GameLoop
    \/ JustShot /\ ClockAdvance(ShortStep, MaxShortSteps * ShortStep)
    \/ Playing /\ ClockAdvance(MATCH_DURATION * 1000,
                                MaxShortSteps * ShortStep + MATCH_DURATION * 1000)

SpecDuel == Init /\ [][NextDuel]_vars

----------------------------------------------------------------------------
(* Intents of every shape *)

\* the number Infinity: typeof 'number', not finite
Infinity == [type |-> "number", finite |-> FALSE, v |-> 1]

\* move messages: beyond the arena on the low side, inside it, beyond it on
\* the far side with a rotation of more than a turn, and with a malformed
\* x, z or rotation
MoveInputs ==
    {[x |-> Num(-20000), z |-> Num(-20000), rotation |-> Num(-PI)],
     [x |-> Num(3000), z |-> Num(2000), rotation |-> Num(500)],
     [x |-> Num(20000), z |-> Num(20000), rotation |-> Num(7000)],
     [x |-> NaN, z |-> Num(2000), rotation |-> Num(500)],
     [x |-> Num(3000), z |-> Str, rotation |-> Num(500)],
     [x |-> Num(3000), z |-> Num(2000), rotation |-> Infinity]}

(* Clients that move anywhere: players come and go, are evicted when stale,  *)
(* and send moves of every shape in every phase                              *)
NextMove ==
    \/ Connect("r1")
    \/ \E c \in Conns : Close(c)
    \/ \E h \in TimerIds : CountdownTimer(h)
    \/ \E c \in Conns, m \in MoveInputs : MoveMsg(c, m)
    \/ GameLoop
    \/ StaleScan
    \/ ClockAdvance(MATCH_DURATION * 1000, MATCH_DURATION * 1000)

SpecMove == Init /\ [][NextMove]_vars

\* fire messages that name no direction: of magnitude 0, of magnitude below
\* 0.01, and with a malformed dirX or dirZ
VoidFires ==
    {[dirX |-> Num(0), dirZ |-> Num(0)],
     [dirX |-> Num(5), dirZ |-> Num(-5)],
     [dirX |-> Infinity, dirZ |-> Num(0)],
     [dirX |-> Num(1000), dirZ |-> Str]}

(* The duel of NextDuel with clients that also fire in no direction, in     *)
(* every phase, and stay connected for a while after a stale eviction        *)
NextFire ==
    \/ Connect("r1")
    \/ \E c \in Conns : Close(c)
    \/ \E h \in TimerIds : CountdownTimer(h)
    \/ \E c \in Conns, m \in DuelMoves : Playing /\ MoveMsg(c, m)
    \/ \E c \in Conns, m \in DuelFires : PointBlank(c, m) /\ FireMsg(c, m)
    \/ \E c \in Conns, m \in VoidFires : FireMsg(c, m)
    \/ GameLoop
    \/ StaleScan
    \/ JustShot /\ ClockAdvance(ShortStep, MaxShortSteps * ShortStep)
    \/ Playing /\ ClockAdvance(MATCH_DURATION * 1000,
                                MaxShortSteps * ShortStep + MATCH_DURATION * 1000)

SpecFire == Init /\ [][NextFire]_vars

\* the player of connection c is in its room and has been silent for more
\* than the timeout
Silent(c) ==
    /\ Has(rooms, conns[c].roomId)
    /\ Has(Get(rooms, conns[c].roomId).players, conns[c].playerId)
    /\ now - Get(Get(rooms, conns[c].roomId).players, conns[c].playerId).lastHeartbeat
          > HEARTBEAT_TIMEOUT

(* Heartbeats and the stale scan: players come and go, countdowns run, and  *)
(* players send heartbeats until they fall silent, a connection that was    *)
(* silent for more than the timeout sending none again; the clock steps by  *)
(* one heartbeat interval; the scan is rescheduled for ever by setInterval  *)
NextStale ==
    \/ Connect("r1")
    \/ \E c \in Conns : Close(c)
    \/ \E c \in Conns : ~Silent(c) /\ HeartbeatMsg(c)
    \/ \E h \in TimerIds : CountdownTimer(h)
    \/ StaleScan
    \/ ClockAdvance(HEARTBEAT_INTERVAL, MaxIntervals * HEARTBEAT_INTERVAL)

\* some player has been silent for more than the timeout: a stale scan then
\* changes the registry, so that <<StaleScan>>_vars is enabled
ScanDue == \E c \in Conns : Silent(c)

\* the scan is never awaited for ever: WF_vars(StaleScan) implies it, as
\* ScanDue implies ENABLED <<StaleScan>>_vars
ScanFairness == []<>~ScanDue \/ []<><<StaleScan>>_vars

SpecStale == Init /\ [][NextStale]_vars /\ ScanFairness

(* A duel at close range with rematches: players come and go, step next to  *)
(* the other, shoot at it, and ask for a rematch in every phase; during a    *)
(* match the clock steps by a whole match, once                              *)
NextRematch ==
    \/ Connect("r1")
    \/ \E c \in Conns : Close(c)
    \/ \E h \in TimerIds : CountdownTimer(h)
    \/ \E c \in Conns, m \in DuelMoves : Playing /\ MoveMsg(c, m)
    \/ \E c \in Conns, m \in DuelFires : PointBlank(c, m) /\ FireMsg(c, m)
    \/ \E c \in Conns : RematchMsg(c)
    \/ GameLoop
    \/ Playing /\ ClockAdvance(MATCH_DURATION * 1000, MATCH_DURATION * 1000)

SpecRematch == Init /\ [][NextRematch]_vars

----------------------------------------------------------------------------
(* The room a connection asks for *)

\* a text is the sequence of its characters; Text(chars) is the string of them
RECURSIVE Text(_)
Text(chars) == IF chars = <<>> THEN "" ELSE chars[1] \o Text(Tail(chars))

\* the length String(rawRoom).slice(0, n) keeps
ROOM_ID_LENGTH == 64

\* s.slice(0, n)
Slice(chars, n) == SubSeq(chars, 1, Min(Len(chars), n))

\* a.join(','), the String(a) of an array a of texts
RECURSIVE Join(_)
Join(texts) ==
    IF texts = <<>> THEN <<>>
    ELSE IF Len(texts) = 1 THEN texts[1]
    ELSE texts[1] \o <<",">> \o Join(Tail(texts))

\* url.parse(req.url, true).query.room: undefined without the parameter, a
\* text for one occurrence, an array of texts for several
Absent == [kind |-> "undefined", texts |-> <<>>]
One(chars) == [kind |-> "string", texts |-> <<chars>>]
Many(texts) == [kind |-> "array", texts |-> texts]

\* the || of params.room || 'default': undefined and '' are falsy, an array
\* is not
Falsy(q) == q.kind = "undefined" \/ (q.kind = "string" /\ q.texts[1] = <<>>)

DefaultRoom == <<"d", "e", "f", "a", "u", "l", "t">>

\* String(params.room || 'default')
RawRoom(q) ==
    IF Falsy(q) THEN DefaultRoom
    ELSE IF q.kind = "string" THEN q.texts[1]
    ELSE Join(q.texts)

\* the roomId of the connection handler, as characters
RoomIdOf(q) == Slice(RawRoom(q), ROOM_ID_LENGTH)

\* wss.on('connection') from the query on: the room id of the request, then
\* the handler as Connect runs it
Request(q) ==
    /\ Connect(Text(RoomIdOf(q)))

\* the room parameters clients send: none, empty, a plain name, the fallback
\* name, a name with a character outside a-z A-Z 0-9 _ -, a name one
\* character longer than the cap, the parameter twice
LongName == [i \in 1..(ROOM_ID_LENGTH + 1) |-> "a"]
Queries ==
    {Absent, One(<<>>), One(<<"r", "1">>), One(DefaultRoom),
     One(<<"a", "!">>), One(LongName), Many(<<<<"r", "1">>, <<"r", "2">>>>)}

\* one timer handle per room that can be in countdown at once
RequestTimerIds == 1..MaxConns

(* Connections that name their room: joins, leaves, the countdown and the  *)
(* match clock                                                              *)
NextRequest ==
    \/ \E q \in Queries : Request(q)
    \/ \E c \in Conns : Close(c)
    \/ \E h \in RequestTimerIds : CountdownTimer(h)
    \/ GameLoop
    \/ ClockAdvance(MATCH_DURATION * 1000, MATCH_DURATION * 1000)

SpecRequest == Init /\ [][NextRequest]_vars

----------------------------------------------------------------------------
(* A flood of messages *)

\* what a flooding client sends: heartbeats, a text that is no JSON, a
\* message of a type the switch does not know
Flood ==
    {[json |-> TRUE, msg |-> [type |-> "heartbeat"]],
     [json |-> FALSE, msg |-> [type |-> ""]],
     [json |-> TRUE, msg |-> [type |-> "dance"]]}

(* Players come and go while the first connection sends message after      *)
(* message; the clock steps by one rate-limit window                        *)
NextFlood ==
    \/ Connect("r1")
    \/ \E c \in Conns : Close(c)
    \/ \E raw \in Flood : Message(1, raw)
    \/ ClockAdvance(RATE_WINDOW, MaxWindows * RATE_WINDOW)

SpecFlood == Init /\ [][NextFlood]_vars

----------------------------------------------------------------------------
(* Shots at the edge of reach *)

\* the shooter steps to the middle, or onto the spot its shot is at after
\* one step of the simulation
ShooterMoves ==
    {[x |-> Num(0), z |-> Num(0), rotation |-> Num(0)],
     [x |-> Num(1800), z |-> Num(0), rotation |-> Num(0)]}

\* the target steps 0.85 units, or 0.849 units, beyond the spot a shot from
\* the middle is at after one step
TargetMoves ==
    {[x |-> Num(2650), z |-> Num(0), rotation |-> Num(PI)],
     [x |-> Num(2649), z |-> Num(0), rotation |-> Num(PI)]}

\* the shot: towards +x
EdgeFires ==
    {[dirX |-> Num(1000), dirZ |-> Num(0)]}

\* no projectile is in flight
Idle == \A i \in DOMAIN rooms : rooms[i].projectiles = <<>>

\* the first player stands in the middle of the arena
AtMiddle ==
    \E i \in DOMAIN rooms : \E k \in DOMAIN rooms[i].players :
        /\ rooms[i].players[k].id = conns[1].playerId
        /\ rooms[i].players[k].x = 0
        /\ rooms[i].players[k].z = 0

(* One match in which the first player shoots along x from the middle at   *)
(* the second, who stands at its spawn or at the edge of reach of the shot  *)
(* and moves between shots; after a shot the clock steps by one cooldown    *)
NextHit ==
    \/ Connect("r1")
    \/ \E h \in TimerIds : CountdownTimer(h)
    \/ \E m \in ShooterMoves : Playing /\ MoveMsg(1, m)
    \/ \E m \in TargetMoves : Playing /\ Idle /\ MoveMsg(2, m)
    \/ \E m \in EdgeFires : AtMiddle /\ FireMsg(1, m)
    \/ GameLoop
    \/ JustShot /\ ClockAdvance(FIRE_COOLDOWN, MaxReloads * FIRE_COOLDOWN)

SpecHit == Init /\ [][NextHit]_vars

----------------------------------------------------------------------------
(* Shots in every direction *)

\* the directions a client aims in: along x, a 3-4-5 diagonal, along -z
\* with length 2, and along x with a length beyond the range
AimFires ==
    {[dirX |-> Num(1000), dirZ |-> Num(0)],
     [dirX |-> Num(3000), dirZ |-> Num(4000)],
     [dirX |-> Num(0), dirZ |-> Num(-2000)],
     [dirX |-> Huge, dirZ |-> Num(0)]}

(* One match in which the first player shoots in every direction, from its  *)
(* spawn, the middle or a step from it; after a shot the clock steps by one *)
(* cooldown                                                                 *)
NextAim ==
    \/ Connect("r1")
    \/ \E h \in TimerIds : CountdownTimer(h)
    \/ \E m \in ShooterMoves : Playing /\ Idle /\ MoveMsg(1, m)
    \/ \E m \in AimFires : FireMsg(1, m)
    \/ GameLoop
    \/ JustShot /\ ClockAdvance(FIRE_COOLDOWN, MaxReloads * FIRE_COOLDOWN)

SpecAim == Init /\ [][NextAim]_vars

----------------------------------------------------------------------------
(* Matches that run to their end *)

\* the clock of the behaviour stops MaxMatches matches after the start: a
\* countdown callback runs while a match it starts can still run out
InTime == now + MATCH_DURATION * 1000 <= Epoch + MaxMatches * MATCH_DURATION * 1000

\* time passes, by a whole match
Tock == ClockAdvance(MATCH_DURATION * 1000, MaxMatches * MATCH_DURATION * 1000)

\* the game loop has a match to end: the time of a playing room has run out
TickDue ==
    \E i \in DOMAIN rooms :
        /\ rooms[i].state = "playing"
        /\ now - rooms[i].startTime >= MATCH_DURATION * 1000

\* setInterval(..., tickInterval) keeps firing: written out, as WF_vars(GameLoop)
\* implies it, TickDue being a case in which a GameLoop step is enabled
TickFairness == []<>~TickDue \/ []<><<GameLoop>>_vars

(* Players come and go, are evicted when stale, matches start and run out   *)
(* on the clock, which steps by a whole match                               *)
NextLive ==
    \/ Connect("r1")
    \/ \E c \in Conns : Close(c)
    \/ \E h \in TimerIds : InTime /\ CountdownTimer(h)
    \/ GameLoop
    \/ StaleScan
    \/ Tock

\* time passes and the game loop keeps ticking
SpecLive == Init /\ [][NextLive]_vars /\ WF_vars(Tock) /\ TickFairness

----------------------------------------------------------------------------
(* Shots that expire *)

\* the shooter steps to the middle, or to 1.7 units from the wall at +x
WallShooterMoves ==
    {[x |-> Num(0), z |-> Num(0), rotation |-> Num(0)],
     [x |-> Num(13300), z |-> Num(0), rotation |-> Num(0)]}

\* the target steps to the spot a shot from the middle is at after one step,
\* or as close to the wall at +x as the clamp lets it
WallTargetMoves ==
    {[x |-> Num(1800), z |-> Num(0), rotation |-> Num(PI)],
     [x |-> Num(14400), z |-> Num(0), rotation |-> Num(PI)]}

(* One match in which the first player shoots along x at the second, who   *)
(* stands in the path of the shot or at the wall; after a shot the clock    *)
(* steps past the lifetime of a projectile                                  *)
NextExpiry ==
    \/ Connect("r1")
    \/ \E h \in TimerIds : CountdownTimer(h)
    \/ \E m \in WallShooterMoves : Playing /\ Idle /\ MoveMsg(1, m)
    \/ \E m \in WallTargetMoves : Playing /\ Idle /\ MoveMsg(2, m)
    \/ \E m \in EdgeFires : FireMsg(1, m)
    \/ GameLoop
    \/ JustShot /\ ClockAdvance(PROJECTILE_LIFETIME + 1,
                                 MaxLifetimes * (PROJECTILE_LIFETIME + 1))

SpecExpiry == Init /\ [][NextExpiry]_vars

----------------------------------------------------------------------------
(* client/multiplayer.js *)

MAX_RECONNECT == 5

\* the time between two animation frames: of a display at 62.5 Hz and of
\* one at 143 Hz
FramePeriods == {16, 7}

\* a step of the page alone, which no handler of the server takes part in
Page(ev, cl) ==
    /\ client' = cl
    /\ out' = Note(ev, 0, Quiet)
    /\ UNCHANGED <<rooms, timers, conns, now>>

\* connect(room): roomId = room; ws = new WebSocket(wsUrl), the socket the
\* server accepts next
connect(cl, room) ==
    [cl EXCEPT !.roomId = room, !.ws = NextConn, !.readyState = "connecting"]

\* ws.onopen: connected, the counter reset, the heartbeat interval started
onopen(cl) ==
    [cl EXCEPT !.connected = TRUE,
               !.reconnectAttempts = 0,
               !.heartbeatTimer = now + HEARTBEAT_INTERVAL,
               !.readyState = "open",
               !.tries = 0]

\* the callbacks of the page (part_001): what they do to gameState
Callback(gameState, msg) ==
    CASE msg.type = "match_countdown" -> "countdown"
      [] msg.type = "match_start" -> "playing"
      [] msg.type = "match_end" -> "ended"
      [] msg.type = "player_left" /\ gameState \in {"playing", "countdown"}
             -> "waiting"
      [] OTHER -> gameState

\* handleMessage(msg): the first player_joined with an id names the page
handleMessage(cl, msg) ==
    [cl EXCEPT !.localPlayerId =
                   IF msg.type = "player_joined" /\ @ = 0 /\ msg.playerId # 0
                   THEN msg.playerId ELSE @,
               !.localCharacterId =
                   IF msg.type = "player_joined" /\ cl.localPlayerId = 0
                      /\ msg.playerId # 0
                   THEN msg.characterId ELSE @,
               !.gameState = Callback(@, msg)]

RECURSIVE Pow2(_)
Pow2(n) == IF n = 0 THEN 1 ELSE 2 * Pow2(n - 1)

\* ws.onclose: the heartbeat interval cleared, and while the counter is below
\* MAX_RECONNECT a reconnect scheduled after min(1000 * 2^counter, 10000) ms
onclose(cl) ==
    IF cl.reconnectAttempts < MAX_RECONNECT
    THEN [cl EXCEPT !.connected = FALSE, !.heartbeatTimer = 0,
                    !.readyState = "closed",
                    !.reconnectTimer =
                        now + Min(1000 * Pow2(cl.reconnectAttempts), 10000),
                    !.reconnectAttempts = @ + 1]
    ELSE [cl EXCEPT !.connected = FALSE, !.heartbeatTimer = 0,
                    !.readyState = "closed"]

\* a disconnect() that leaves the counter as it is
disconnectKeepCounter(cl) ==
    [cl EXCEPT !.heartbeatTimer = 0,
               !.reconnectTimer = 0,
               !.readyState = IF @ \in {"connecting", "open"} THEN "closing" ELSE @,
               !.stopped = TRUE]

\* disconnect(): both timers cleared, the counter set to MAX_RECONNECT,
\* ws.close() if there is a socket
disconnect(cl) ==
    [cl EXCEPT !.heartbeatTimer = 0,
               !.reconnectTimer = 0,
               !.reconnectAttempts = MAX_RECONNECT,
               !.readyState = IF @ \in {"connecting", "open"} THEN "closing" ELSE @,
               !.stopped = TRUE]

\* init() of the page on a display that refreshes every p ms:
\* Multiplayer.connect(room), requestAnimationFrame(gameLoop)
Dial(room, p) ==
    /\ client.readyState = "none"
    /\ \E c \in Conns : conns[c].status = "new"
    /\ Page("page_connect",
            [connect(client, room) EXCEPT !.frame = now + p, !.period = p])

\* the callback of the reconnect timeout: connect(roomId)
Redial ==
    /\ client.reconnectTimer # 0
    /\ now >= client.reconnectTimer
    /\ \E c \in Conns : conns[c].status = "new"
    /\ Page("page_reconnect",
            connect([client EXCEPT !.reconnectTimer = 0, !.tries = @ + 1],
                    client.roomId))

\* the socket fails before the server accepts it: its close event
Refused ==
    /\ client.readyState = "connecting"
    /\ conns[client.ws].status = "new"
    /\ Page("page_close", onclose(client))

\* the open event of a socket the server accepted
OnOpen ==
    /\ client.readyState = "connecting"
    /\ conns[client.ws].status # "new"
    /\ Page("page_open", onopen(client))

\* ws.onmessage: the events arrive in the order the server sent them
OnMessage ==
    /\ client.readyState \in {"open", "closing"}
    /\ client.inbox # <<>>
    /\ Page("page_message",
            handleMessage([client EXCEPT !.inbox = Tail(@)], Head(client.inbox)))

\* the close event of a socket that was open, or that disconnect() closed:
\* the server closed it or saw it close, or the page closed it; it comes
\* after the events in flight
OnClose ==
    /\ client.readyState \in {"open", "closing"}
    /\ client.inbox = <<>>
    /\ client.readyState = "closing"
           \/ conns[client.ws].status \in {"closing", "closed"}
    /\ Page("page_close", onclose(client))

\* disconnect() called by the page, once, after init() connected it
Disconnect ==
    /\ client.readyState # "none"
    /\ ~client.stopped
    /\ Page("page_disconnect", disconnect(client))

\* send(data): ws.send if the socket is open; the server handles what
\* reaches it at once, its rate limiter first
send(cl, ev, msg) ==
    IF cl.readyState = "open" /\ Receiving(cl.ws)
    THEN Arrived(cl.ws, [json |-> TRUE, msg |-> msg],
                 Counted(getRateLimiter(conns[cl.ws].rateLimiter)), cl)
    ELSE Page(ev, cl)

\* sendLocalState: the page stands where handleMatchCountdown put it
LocalState(cl) ==
    [type |-> "move",
     x |-> Num(IF cl.localCharacterId = "cupid_prime"
               THEN -PLAYER_SPAWN_OFFSET * Unit ELSE PLAYER_SPAWN_OFFSET * Unit),
     z |-> Num(0),
     rotation |-> Num(IF cl.localCharacterId = "cupid_prime" THEN 0 ELSE PI)]

\* gameLoop, the animation frame callback: the next frame requested, and
\* while the page is playing its state sent
Frame ==
    /\ client.frame # 0
    /\ now = client.frame
    /\ IF client.gameState = "playing"
       THEN send([client EXCEPT !.frame = now + client.period], "page_frame",
                 LocalState(client))
       ELSE Page("page_frame", [client EXCEPT !.frame = now + client.period])

\* the callback of the heartbeat interval
Beat ==
    /\ client.heartbeatTimer # 0
    /\ now = client.heartbeatTimer
    /\ send([client EXCEPT !.heartbeatTimer = now + HEARTBEAT_INTERVAL],
            "page_beat", [type |-> "heartbeat"])

\* the heartbeat of another socket is due
PeerDue(c) ==
    /\ c # client.ws
    /\ Receiving(c)
    /\ Has(rooms, conns[c].roomId)
    /\ Has(Get(rooms, conns[c].roomId).players, conns[c].playerId)
    /\ now = Get(Get(rooms, conns[c].roomId).players,
                 conns[c].playerId).lastHeartbeat + HEARTBEAT_INTERVAL

\* the players of all rooms
Everyone ==
    UNION {{rooms[i].players[k] : k \in DOMAIN rooms[i].players} :
              i \in DOMAIN rooms}

\* the times at which something is due after now: the next frame, the next
\* heartbeat of the page and of the other players, the instant a player
\* becomes stale
Dues ==
    {t \in {client.frame, client.heartbeatTimer}
           \cup {p.lastHeartbeat + HEARTBEAT_INTERVAL : p \in Everyone}
           \cup {p.lastHeartbeat + HEARTBEAT_TIMEOUT + 1 : p \in Everyone} :
        t > now}

\* nothing is due now and no event is in flight to the page
Settled ==
    /\ client.inbox = <<>>
    /\ client.frame # now
    /\ client.heartbeatTimer # now
    /\ \A c \in Conns : ~PeerDue(c)

\* time passes until something is due
Elapse(max) ==
    /\ Settled
    /\ Dues # {}
    /\ ClockAdvance((CHOOSE t \in Dues : \A u \in Dues : t <= u) - now, max)

\* a scan would find a stale player
SomeStale == cleanStale(World) # <<>>

\* no time has passed since the server started
AtStart == now = Epoch

(* A match between the page and another socket, both heartbeating on time:  *)
(* the sockets connect and the match starts before time passes; the page    *)
(* sends its state on every animation frame of a display that refreshes     *)
(* every 16 ms or every 7 ms; the stale scan runs when a player is stale    *)
NextBeat ==
    \/ \E p \in FramePeriods : AtStart /\ Dial("r1", p)
    \/ OnOpen
    \/ OnMessage
    \/ Frame
    \/ Beat
    \/ AtStart /\ Connect("r1")
    \/ \E h \in TimerIds : AtStart /\ CountdownTimer(h)
    \/ \E c \in Conns : PeerDue(c) /\ HeartbeatMsg(c)
    \/ SomeStale /\ StaleScan
    \/ Playing /\ Elapse(MaxBeats * HEARTBEAT_INTERVAL)

SpecBeat == Init /\ [][NextBeat]_vars

\* the reconnect timeout is pending
Waiting == client.reconnectTimer # 0 /\ now < client.reconnectTimer

(* One page and other sockets, which stay: the page connects, is refused,   *)
(* accepted or told the room is full, loses its socket, reconnects and      *)
(* disconnects; the clock steps by seconds while the reconnect timeout is   *)
(* pending                                                                  *)
NextClient ==
    \/ \E p \in FramePeriods : Dial("r1", p)
    \/ Redial
    \/ Refused
    \/ OnOpen
    \/ OnMessage
    \/ OnClose
    \/ Disconnect
    \/ Connect("r1")
    \/ \E c \in Conns : c = client.ws /\ Close(c)
    \/ Waiting /\ ClockAdvance(1000, MaxRetrySeconds * 1000)

SpecClient == Init /\ [][NextClient]_vars

----------------------------------------------------------------------------
(* Shots and departures *)

(* Players come and go, are evicted when stale, and ask for rematches; every *)
(* connection, that of an evicted player too, shoots along x in every       *)
(* phase; during a match the clock steps by a whole match, once             *)
NextOwners ==
    \/ Connect("r1")
    \/ \E c \in Conns : Close(c)
    \/ \E h \in TimerIds : CountdownTimer(h)
    \/ \E c \in Conns, m \in EdgeFires : FireMsg(c, m)
    \/ \E c \in Conns : RematchMsg(c)
    \/ GameLoop
    \/ StaleScan
    \/ Playing /\ ClockAdvance(MATCH_DURATION * 1000, MATCH_DURATION * 1000)

SpecOwners == Init /\ [][NextOwners]_vars

----------------------------------------------------------------------------
(* Two shots that land together *)

\* the distance a projectile covers in one step of the simulation
Stride == (PROJECTILE_SPEED * Unit) \div TICK_RATE

\* the steps of the simulation in one FIRE_COOLDOWN
Reload == (FIRE_COOLDOWN * TICK_RATE) \div 1000

\* every shot in flight is as far along x from its owner as the simulation
\* takes it in the steps of one cooldown
Flown ==
    \A i \in DOMAIN rooms : \A j \in DOMAIN rooms[i].projectiles :
        \E k \in DOMAIN rooms[i].players :
            /\ rooms[i].players[k].id = rooms[i].projectiles[j].ownerId
            /\ Abs(rooms[i].projectiles[j].x - rooms[i].players[k].x)
                   >= Unit + Reload * Stride

\* the attacker steps next to the second spawn, to the middle, or one unit
\* behind the spot its shot from the middle is at after the steps of one
\* cooldown
VolleyMoves ==
    {[x |-> Num(9800), z |-> Num(0), rotation |-> Num(PI)],
     [x |-> Num(0), z |-> Num(0), rotation |-> Num(0)],
     [x |-> Num(Reload * Stride), z |-> Num(0), rotation |-> Num(0)]}

(* One match in which the first player attacks a standing second player:   *)
(* it shoots at it from next to it, or from the middle and, a cooldown      *)
(* later, from behind the shot in flight; the clock steps by one cooldown   *)
(* after a shot, once the simulation has run for the steps of a cooldown    *)
NextVolley ==
    \/ Connect("r1")
    \/ \E h \in TimerIds : CountdownTimer(h)
    \/ \E m \in VolleyMoves : Playing /\ ~JustShot /\ Flown /\ MoveMsg(1, m)
    \/ \E m \in WinFires : PointBlank(1, m) /\ Idle /\ FireMsg(1, m)
    \/ \E m \in EdgeFires : (\A w \in WinFires : ~PointBlank(1, w)) /\ FireMsg(1, m)
    \/ GameLoop
    \/ JustShot /\ Flown /\ ClockAdvance(FIRE_COOLDOWN, MaxVolleys * FIRE_COOLDOWN)

SpecVolley == Init /\ [][NextVolley]_vars

----------------------------------------------------------------------------
(* RoomManager driven directly *)

\* rooms.startMatch(roomId, broadcast) called on a room that is not playing,
\* by a caller other than the countdown callback
StartMatchCall ==
    /\ \E rid \in RoomIds : Has(rooms, rid) /\ Get(rooms, rid).state # "playing"
    /\ Handled("start_match", 0, startMatch(World, "r1"))

(* The server's handlers and a direct call of startMatch: the first player  *)
(* shoots from the middle at the second, the match runs out with the shot   *)
(* in flight, players leave and a match is started over what is left        *)
NextDirect ==
    \/ Connect("r1")
    \/ \E c \in Conns : Close(c)
    \/ \E h \in TimerIds : CountdownTimer(h)
    \/ \E m \in ShooterMoves : Playing /\ Idle /\ MoveMsg(1, m)
    \/ \E m \in TargetMoves : Playing /\ Idle /\ MoveMsg(2, m)
    \/ \E m \in EdgeFires : AtMiddle /\ FireMsg(1, m)
    \/ GameLoop
    \/ StartMatchCall
    \/ Playing /\ ClockAdvance(MATCH_DURATION * 1000, MATCH_DURATION * 1000)

SpecDirect == Init /\ [][NextDirect]_vars

----------------------------------------------------------------------------
(* Properties *)

\* the events of type ty among the events msgs, in order
OfType(msgs, ty) == SelectSeq(msgs, LAMBDA m : m.type = ty)

\* the step is a run of the handler ev
Ran(ev) == out'.ev = ev /\ vars' # vars

\* C1: no room ever holds more than MAX_PLAYERS players; addPlayer on a room
\* that holds MAX_PLAYERS players returns null and leaves the room, its
\* players, projectiles, phase and timers as they were, and the connection
\* handler then answers room_full and changes no room and no timer.
C1_Capacity ==
    /\ [](\A i \in DOMAIN rooms :
            /\ Len(rooms[i].players) <= MAX_PLAYERS
            /\ Len(rooms[i].players) = MAX_PLAYERS =>
                   \A ws \in Conns :
                       /\ addPlayer(World, rooms[i].id, ws).ret = <<>>
                       /\ addPlayer(World, rooms[i].id, ws).w = World)
    /\ [][Ran("connect") =>
            /\ (\A rid \in RoomIds :
                    Has(rooms, rid) /\ Len(Get(rooms, rid).players) = MAX_PLAYERS)
                   => OfType(out'.msgs, "room_full") # <<>>
            /\ OfType(out'.msgs, "room_full") # <<>>
                   => /\ rooms' = rooms
                      /\ timers' = timers
                      /\ out'.msgs = <<[type |-> "room_full", to |-> out'.c]>>]_vars

\* a join has just been refused by a room that holds MAX_PLAYERS players
C1_Witness ==
    /\ out.ev = "connect"
    /\ out.msgs = <<[type |-> "room_full", to |-> out.c]>>
    /\ conns[out.c].status = "closed"
    /\ \E i \in DOMAIN rooms : Len(rooms[i].players) = MAX_PLAYERS

\* the phase changes the state machine has
PhaseEdges ==
    {<<"waiting", "countdown">>, <<"countdown", "playing">>,
     <<"playing", "ended">>, <<"ended", "waiting">>,
     <<"countdown", "waiting">>, <<"playing", "waiting">>}

\* the phase the room rid reaches from phase by the recorded changes edges,
\* "broken" when a change does not start where the last one ended
PhaseAfter(rid, phase, edges) ==
    LET At[k \in 0..Len(edges)] ==
            IF k = 0 THEN phase
            ELSE IF edges[k].rid # rid THEN At[k - 1]
            ELSE IF edges[k].from = At[k - 1] THEN edges[k].to
            ELSE "broken"
    IN  At[Len(edges)]

\* C2: every write that changes a room's phase follows one of the edges
\* waiting -> countdown, countdown -> playing, playing -> ended,
\* ended -> waiting, countdown -> waiting, playing -> waiting; the phase of a
\* room after a handler is the phase before it followed by the changes the
\* handler made, so no other phase change occurs.
C2_PhaseEdges ==
    [][/\ \A k \in DOMAIN out'.edges :
              <<out'.edges[k].from, out'.edges[k].to>> \in PhaseEdges
       /\ \A rid \in RoomIds :
              Has(rooms, rid) /\ Has(rooms', rid) =>
                  PhaseAfter(rid, Get(rooms, rid).state, out'.edges)
                      = Get(rooms', rid).state]_vars

\* a rematch has just taken a room from ended through waiting to countdown
C2_Witness ==
    /\ out.ev = "rematch"
    /\ Len(out.edges) = 2
    /\ out.edges[1].from = "ended" /\ out.edges[1].to = "waiting"
    /\ out.edges[2].from = "waiting" /\ out.edges[2].to = "countdown"

\* C3: after every completed handler (join, close, stale eviction, rematch,
\* countdown callback, tick) no room is left in phase waiting with
\* MAX_PLAYERS players.
C3_NoFullWaitingRoom ==
    \A i \in DOMAIN rooms :
        ~(rooms[i].state = "waiting" /\ Len(rooms[i].players) = MAX_PLAYERS)

\* the countdown timers of room rid
TimersOf(ts, rid) == {t \in ts : t.rid = rid}

\* a room is in countdown exactly while one countdown timer runs for it, the
\* room holds its handle, and its count is the last count announced
CountdownRuns ==
    \A rid \in RoomIds :
        IF Has(rooms, rid) /\ Get(rooms, rid).state = "countdown"
        THEN \E t \in timers :
                 /\ TimersOf(timers, rid) = {t}
                 /\ Get(rooms, rid).countdownTimer = t.id
                 /\ t.count \in 1..COUNTDOWN_DURATION
        ELSE TimersOf(timers, rid) = {}

PlayerOf(c) == conns[c].playerId

\* C5: removing a player from a room in countdown or playing while another
\* player remains leaves the room waiting with no projectiles and the
\* remaining players as they were (score, position, rotation): for every
\* player removePlayer could be called for, and for every close of a
\* connection during a countdown or a match.
C5_DepartureAbort ==
    /\ [](\A i \in DOMAIN rooms :
            rooms[i].state \in {"countdown", "playing"} /\ Len(rooms[i].players) > 1 =>
                \A k \in DOMAIN rooms[i].players :
                    /\ Has(removePlayer(World, rooms[i].id, rooms[i].players[k].id).rooms,
                           rooms[i].id)
                    /\ Get(removePlayer(World, rooms[i].id, rooms[i].players[k].id).rooms,
                           rooms[i].id)
                         = [rooms[i] EXCEPT !.state = "waiting",
                                            !.projectiles = <<>>,
                                            !.countdownTimer = NoTimer,
                                            !.players = Del(@, rooms[i].players[k].id)])
    /\ [][\A rid \in RoomIds :
              /\ Ran("close")
              /\ Has(rooms, rid)
              /\ Get(rooms, rid).state \in {"countdown", "playing"}
              /\ Has(Get(rooms, rid).players, PlayerOf(out'.c))
              /\ Len(Get(rooms, rid).players) > 1
              => /\ Has(rooms', rid)
                 /\ Get(rooms', rid).state = "waiting"
                 /\ Get(rooms', rid).projectiles = <<>>
                 /\ Get(rooms', rid).players
                        = Del(Get(rooms, rid).players, PlayerOf(out'.c))]_vars

\* a player has just left a match: the room is waiting, without
\* projectiles, and the player that remains keeps its score and its place
C5_Witness ==
    /\ out.ev = "close"
    /\ \E i \in DOMAIN rooms :
           /\ out.edges = <<[rid |-> rooms[i].id, from |-> "playing", to |-> "waiting"]>>
           /\ rooms[i].state = "waiting"
           /\ rooms[i].projectiles = <<>>
           /\ Len(rooms[i].players) = 1
           /\ rooms[i].players[1].score > 0
           /\ rooms[i].players[1].x \notin {-PLAYER_SPAWN_OFFSET * Unit,
                                              PLAYER_SPAWN_OFFSET * Unit}

\* the room a join or getRoom makes: waiting, nobody in it, no projectiles,
\* no start time, the match clock full
Fresh(room) ==
    /\ room.state = "waiting"
    /\ room.projectiles = <<>>
    /\ room.startTime = NullTime
    /\ room.timeRemaining = MATCH_DURATION * 1000
    /\ room.matchTimer = NoTimer /\ room.countdownTimer = NoTimer

\* C6: removing the last player of a room deletes the room and leaves no
\* timer of it; getRoom with the same id then makes a fresh room (waiting,
\* no players, no projectiles, startTime null, timeRemaining =
\* MATCH_DURATION), whatever the deleted room held, and a join after the
\* deletion finds that fresh room with the joiner as its only player.
C6_RoomTeardown ==
    /\ [](\A i \in DOMAIN rooms :
            Len(rooms[i].players) = 1 =>
                /\ ~Has(removePlayer(World, rooms[i].id, rooms[i].players[1].id).rooms,
                        rooms[i].id)
                /\ TimersOf(removePlayer(World, rooms[i].id,
                                         rooms[i].players[1].id).timers,
                            rooms[i].id) = {}
                /\ Fresh(Get(getRoom(removePlayer(World, rooms[i].id,
                                                  rooms[i].players[1].id),
                                     rooms[i].id).rooms, rooms[i].id))
                /\ Get(getRoom(removePlayer(World, rooms[i].id,
                                            rooms[i].players[1].id),
                               rooms[i].id).rooms, rooms[i].id).players = <<>>)
    /\ [][\A rid \in RoomIds :
              /\ (/\ Ran("close")
                  /\ Has(rooms, rid)
                  /\ Len(Get(rooms, rid).players) = 1
                  /\ Has(Get(rooms, rid).players, PlayerOf(out'.c))
                  => ~Has(rooms', rid) /\ TimersOf(timers', rid) = {})
              /\ (Ran("connect") /\ ~Has(rooms, rid) /\ Has(rooms', rid)
                  => /\ Fresh(Get(rooms', rid))
                     /\ Len(Get(rooms', rid).players) = 1
                     /\ Get(rooms', rid).players[1].id = conns'[out'.c].playerId
                     /\ Get(rooms', rid).players[1].score = 0)]_vars

\* a player has just joined a room id whose earlier room was deleted when
\* the last of its players left: every earlier connection was accepted and
\* has closed
C6_Witness ==
    /\ out.ev = "connect"
    /\ out.c > MAX_PLAYERS
    /\ \A d \in Conns : d < out.c => conns[d].status = "closed" /\ conns[d].playerId # 0
    /\ \E i \in DOMAIN rooms :
           /\ Fresh(rooms[i])
           /\ Len(rooms[i].players) = 1
           /\ rooms[i].players[1].id = conns[out.c].playerId

\* the highest score among the players ps, -1 for none
HighScore(ps) ==
    IF ps = <<>> THEN -1
    ELSE CHOOSE s \in {ps[k].score : k \in DOMAIN ps} :
             \A k \in DOMAIN ps : ps[k].score <= s

\* the match_end events of the last handler for room rid
MatchEnds(o, rid) == SelectSeq(o.msgs, LAMBDA m : m.type = "match_end" /\ m.rid = rid)

\* C7: when a tick raises a player's score to WIN_SCORE, the room is ended
\* at the end of that game-loop step and the match_end of that step reports
\* reason "score".
C7_WinByScore ==
    [][\A rid \in RoomIds :
          /\ Ran("game_loop")
          /\ Has(rooms, rid) /\ Has(rooms', rid)
          /\ Get(rooms, rid).state = "playing"
          /\ HighScore(Get(rooms, rid).players) < WIN_SCORE
          /\ HighScore(Get(rooms', rid).players) >= WIN_SCORE
          => /\ Get(rooms', rid).state = "ended"
             /\ Len(MatchEnds(out', rid)) = 1
             /\ MatchEnds(out', rid)[1].results[1].reason = "score"]_vars

\* C8: when a tick of a playing room computes timeRemaining = 0 and no
\* player has reached WIN_SCORE, the room is ended at the end of that step
\* and the match_end of that step reports reason "timeout".
C8_Timeout ==
    [][\A rid \in RoomIds :
          /\ Ran("game_loop")
          /\ Has(rooms, rid) /\ Has(rooms', rid)
          /\ Get(rooms, rid).state = "playing"
          /\ Get(rooms', rid).timeRemaining = 0
          /\ HighScore(Get(rooms', rid).players) < WIN_SCORE
          => /\ Get(rooms', rid).state = "ended"
             /\ out'.edges = <<[rid |-> rid, from |-> "playing", to |-> "ended"]>>
             /\ Len(MatchEnds(out', rid)) = 1
             /\ MatchEnds(out', rid)[1].results[1].reason = "timeout"]_vars

\* a match has just run out of time with a point on the board and nobody at
\* WIN_SCORE
C8_Witness ==
    /\ out.ev = "game_loop"
    /\ \E i \in DOMAIN rooms :
           /\ rooms[i].state = "ended"
           /\ rooms[i].timeRemaining = 0
           /\ HighScore(rooms[i].players) \in 1..(WIN_SCORE - 1)
           /\ Len(MatchEnds(out, rooms[i].id)) = 1
           /\ MatchEnds(out, rooms[i].id)[1].results[1].reason = "timeout"

\* {id, characterId, score} of every player of ps, in order
Listed(ps) ==
    [k \in DOMAIN ps |->
        [id |-> ps[k].id, characterId |-> ps[k].characterId, score |-> ps[k].score]]

\* what C9 asks of results for the players ps
TieOrWinner(results, ps) ==
    /\ results.players = Listed(ps)
    /\ Len(ps) = 2 =>
           /\ ps[1].score = ps[2].score =>
                  results.isTie /\ results.winnerId = NoPlayer
           /\ ps[1].score > ps[2].score =>
                  ~results.isTie /\ results.winnerId = ps[1].id
           /\ ps[1].score < ps[2].score =>
                  ~results.isTie /\ results.winnerId = ps[2].id

\* C9: getMatchResults of a room with two players gives isTie = true and
\* winnerId = null when their scores are equal, and otherwise isTie = false
\* and the id of the player with the strictly higher score; its players
\* list holds {id, characterId, score} of every player of the room.  This
\* holds of every room reached and of the results every match_end carries.
C9_MatchResults ==
    \A i \in DOMAIN rooms :
        /\ getMatchResults(World, rooms[i].id) # <<>>
        /\ TieOrWinner(getMatchResults(World, rooms[i].id)[1], rooms[i].players)
        /\ \A k \in DOMAIN MatchEnds(out, rooms[i].id) :
               TieOrWinner(MatchEnds(out, rooms[i].id)[k].results[1], rooms[i].players)

\* a match has just ended with the second player of the room ahead: the
\* match_end names it the winner
C9_Witness ==
    /\ out.ev = "game_loop"
    /\ \E i \in DOMAIN rooms :
           /\ Len(rooms[i].players) = 2
           /\ rooms[i].players[2].score > rooms[i].players[1].score
           /\ Len(MatchEnds(out, rooms[i].id)) = 1
           /\ MatchEnds(out, rooms[i].id)[1].results[1].winnerId = rooms[i].players[2].id
           /\ ~MatchEnds(out, rooms[i].id)[1].results[1].isTie

\* the player of connection c in the rooms rs
ShooterIn(rs, c) == Get(Get(rs, conns[c].roomId).players, PlayerOf(c))

\* connection c has a player in a playing room
InMatch(c) ==
    /\ Has(rooms, conns[c].roomId)
    /\ Get(rooms, conns[c].roomId).state = "playing"
    /\ Has(Get(rooms, conns[c].roomId).players, PlayerOf(c))

\* C10: of two fire intents of one player less than FIRE_COOLDOWN apart in
\* a playing room, with finite non-degenerate directions, the first (not
\* inside a cooldown) creates exactly one projectile and the second is
\* rejected and creates none; so two projectiles of one player are never
\* less than FIRE_COOLDOWN apart.
C10_Cooldown ==
    /\ [](\A i \in DOMAIN rooms : \A j, k \in DOMAIN rooms[i].projectiles :
            j # k /\ rooms[i].projectiles[j].ownerId = rooms[i].projectiles[k].ownerId
            => Abs(rooms[i].projectiles[j].createdAt - rooms[i].projectiles[k].createdAt)
                   >= FIRE_COOLDOWN)
    /\ [][\A c \in Conns :
              Ran("fire") /\ out'.c = c /\ InMatch(c) =>
                  IF now - ShooterIn(rooms, c).lastFireTime < FIRE_COOLDOWN
                  THEN rooms' = rooms /\ out'.msgs = <<>>
                  ELSE /\ Len(Get(rooms', conns[c].roomId).projectiles)
                            = Len(Get(rooms, conns[c].roomId).projectiles) + 1
                       /\ Len(OfType(out'.msgs, "projectile_spawn")) = 1
                       /\ ShooterIn(rooms', c).lastFireTime = now]_vars

\* a second fire intent ShortStep ms after a shot has just been rejected:
\* the room still holds the one projectile of the first
C10_Witness ==
    /\ out.ev = "fire"
    /\ out.msgs = <<>>
    /\ InMatch(out.c)
    /\ ShooterIn(rooms, out.c).lastFireTime = now - ShortStep
    /\ Len(SelectSeq(Get(rooms, conns[out.c].roomId).projectiles,
                     LAMBDA p : p.ownerId = PlayerOf(out.c))) = 1

\* ids that name no room and no player, next to those that may
AnyRoomIds == RoomIds \cup {"nowhere"}
AnyPlayerIds == 0..MaxConns

\* the bounds of a player's centre
XBound == (ARENA_WIDTH * Unit) \div 2 - PLAYER_RADIUS
ZBound == (ARENA_DEPTH * Unit) \div 2 - PLAYER_RADIUS

\* v if it lies in [-bound, bound], else the nearer end
Nearest(v, bound) == IF v < -bound THEN -bound ELSE IF v > bound THEN bound ELSE v

\* the move m names a player of a room of rs and is well-formed
Movable(rs, rid, pid, m) ==
    /\ Has(rs, rid)
    /\ Has(Get(rs, rid).players, pid)
    /\ m.x.type = "number" /\ m.x.finite
    /\ m.z.type = "number" /\ m.z.finite
    /\ m.rotation.type = "number" /\ m.rotation.finite

\* rs with the player pid of room rid placed as m asks, and nothing else
Placed(rs, rid, pid, m) ==
    Put(rs, [Get(rs, rid) EXCEPT !.players =
                Put(@, [Get(@, pid) EXCEPT !.x = Nearest(m.x.v, XBound),
                                           !.z = Nearest(m.z.v, ZBound),
                                           !.rotation = m.rotation.v])])

\* C11: a move for an unknown room or player, or with an x, z or rotation
\* that is not a finite number, changes nothing; any other move stores x
\* within [-ARENA_WIDTH/2 + PLAYER_RADIUS, ARENA_WIDTH/2 - PLAYER_RADIUS] and
\* z within the same bounds of ARENA_DEPTH (the input if in range, else the
\* nearer bound) and the rotation as given, and changes nothing else; so
\* every player of every room is always inside these bounds. This holds for
\* every move updatePlayerPosition could be called with, and for every MOVE
\* message handled.
C11_MoveClamp ==
    /\ [](\A i \in DOMAIN rooms : \A j \in DOMAIN rooms[i].players :
            /\ rooms[i].players[j].x \in -XBound..XBound
            /\ rooms[i].players[j].z \in -ZBound..ZBound)
    /\ [](\A rid \in AnyRoomIds, pid \in AnyPlayerIds, m \in MoveInputs :
            updatePlayerPosition(World, rid, pid, m.x, m.z, m.rotation) =
                IF Movable(rooms, rid, pid, m)
                THEN [World EXCEPT !.rooms = Placed(rooms, rid, pid, m)]
                ELSE World)
    /\ [][Ran("move") =>
            /\ timers' = timers /\ out'.msgs = <<>> /\ out'.edges = <<>>
            /\ \/ rooms' = rooms
               \/ \E m \in MoveInputs :
                      /\ Movable(rooms, conns[out'.c].roomId, conns[out'.c].playerId, m)
                      /\ rooms' = Placed(rooms, conns[out'.c].roomId,
                                         conns[out'.c].playerId, m)]_vars

\* a move beyond the far bounds has been handled: its player stands on both
\* bounds with the rotation of the message, while the connection of an
\* evicted player, whose moves name no player, is still delivering messages
C11_Witness ==
    /\ out.ev = "move"
    /\ \E i \in DOMAIN rooms : \E j \in DOMAIN rooms[i].players :
           /\ rooms[i].players[j].id = PlayerOf(out.c)
           /\ rooms[i].players[j].x = XBound
           /\ rooms[i].players[j].z = ZBound
           /\ rooms[i].players[j].rotation = 7000
    /\ \E c \in Conns : conns[c].status = "closing"

\* the number of players of room rid in rs, 0 when there is no such room
Headcount(rs, rid) == IF Has(rs, rid) THEN Len(Get(rs, rid).players) ELSE 0

\* p has the role, spawn side and facing of the n-th joiner (counting from 0)
RoleOf(p, n) ==
    /\ n = 0 => /\ p.characterId = "cupid_prime"
                /\ p.x = -(PLAYER_SPAWN_OFFSET * Unit) /\ p.z = 0
                /\ p.rotation = 0
    /\ n = 1 => /\ p.characterId = "dark_cupid"
                /\ p.x = PLAYER_SPAWN_OFFSET * Unit /\ p.z = 0
                /\ p.rotation = PI

\* C12: the player who joins a room that holds nobody (the first joiner of
\* the room) gets cupid_prime, x = -PLAYER_SPAWN_OFFSET, z = 0, rotation 0;
\* the player who joins a room that holds one player (the second joiner)
\* gets dark_cupid, x = +PLAYER_SPAWN_OFFSET, z = 0, rotation pi: for every
\* addPlayer that could be called for a new connection, and for every
\* connection accepted, whose player_joined answer names that character.
C12_Roles ==
    /\ [](\A rid \in RoomIds, ws \in Conns :
            conns[ws].status = "new" /\ addPlayer(World, rid, ws).ret # <<>> =>
                /\ Headcount(rooms, rid) \in {0, 1}
                /\ RoleOf(addPlayer(World, rid, ws).ret[1], Headcount(rooms, rid))
                /\ Get(Get(addPlayer(World, rid, ws).w.rooms, rid).players, ws)
                      = addPlayer(World, rid, ws).ret[1])
    /\ [][Ran("connect") /\ conns'[out'.c].status = "open" =>
            /\ RoleOf(Get(Get(rooms', conns'[out'.c].roomId).players,
                          conns'[out'.c].playerId),
                      Headcount(rooms, conns'[out'.c].roomId))
            /\ \E i \in DOMAIN out'.msgs :
                   /\ out'.msgs[i].type = "player_joined"
                   /\ "to" \in DOMAIN out'.msgs[i]
                   /\ out'.msgs[i].to = out'.c
                   /\ out'.msgs[i].characterId =
                         IF Headcount(rooms, conns'[out'.c].roomId) = 0
                         THEN "cupid_prime" ELSE "dark_cupid"]_vars

\* a second player has just joined the first joiner of a room: the room
\* holds cupid_prime on the -x side and the joiner, dark_cupid on the +x side
C12_Witness ==
    /\ out.ev = "connect"
    /\ conns[out.c].status = "open"
    /\ Has(rooms, conns[out.c].roomId)
    /\ Len(Get(rooms, conns[out.c].roomId).players) = 2
    /\ Get(rooms, conns[out.c].roomId).players[1].characterId = "cupid_prime"
    /\ Get(rooms, conns[out.c].roomId).players[1].x = -(PLAYER_SPAWN_OFFSET * Unit)
    /\ Get(rooms, conns[out.c].roomId).players[2].id = PlayerOf(out.c)
    /\ Get(rooms, conns[out.c].roomId).players[2].characterId = "dark_cupid"
    /\ Get(rooms, conns[out.c].roomId).players[2].x = PLAYER_SPAWN_OFFSET * Unit
    /\ Get(rooms, conns[out.c].roomId).players[2].rotation = PI

\* C13: a room that is not playing holds no projectile.
C13_NoStrayProjectiles ==
    \A i \in DOMAIN rooms :
        rooms[i].state # "playing" => rooms[i].projectiles = <<>>

\* the rooms of rs that are ended
EndedIn(rs) == {rs[i].id : i \in {k \in DOMAIN rs : rs[k].state = "ended"}}

\* C14: a room becomes ended only in a simulation step run while it is
\* playing in which a score reaches WIN_SCORE or timeRemaining reaches 0:
\* every recorded change of a phase to ended, and every room found ended
\* after a handler that was not ended before it, belongs to such a step of
\* the game loop; and no leave, heartbeat, rematch, start of a countdown or
\* of a match, or stop of the timers, whatever room and player it names,
\* makes a room ended.
C14_EndedByTick ==
    /\ [][/\ \A k \in DOMAIN out'.edges :
                 out'.edges[k].to = "ended" =>
                     /\ out'.ev = "game_loop"
                     /\ out'.edges[k].from = "playing"
                     /\ out'.edges[k].rid \in EndedIn(rooms')
           /\ \A rid \in EndedIn(rooms') \ EndedIn(rooms) :
                 /\ out'.ev = "game_loop"
                 /\ Has(rooms, rid) /\ Get(rooms, rid).state = "playing"
                 /\ \/ /\ HighScore(Get(rooms, rid).players) < WIN_SCORE
                       /\ HighScore(Get(rooms', rid).players) >= WIN_SCORE
                    \/ Get(rooms', rid).timeRemaining = 0]_vars
    /\ [](\A rid \in AnyRoomIds :
            /\ \A pid \in AnyPlayerIds :
                  /\ EndedIn(removePlayer(World, rid, pid).rooms) \subseteq EndedIn(rooms)
                  /\ EndedIn(heartbeat(World, rid, pid).rooms) \subseteq EndedIn(rooms)
            /\ EndedIn(handleRematch(World, rid).w.rooms) \subseteq EndedIn(rooms)
            /\ EndedIn(startCountdown(World, rid).rooms) \subseteq EndedIn(rooms)
            /\ EndedIn(startMatch(World, rid).rooms) \subseteq EndedIn(rooms)
            /\ EndedIn(stopMatch(World, rid).rooms) \subseteq EndedIn(rooms))

\* a match has just ended on the score: the game loop ended a room whose
\* clock still runs, with WIN_SCORE points for a player
C14_Witness ==
    /\ out.ev = "game_loop"
    /\ \E k \in DOMAIN out.edges : out.edges[k].to = "ended"
    /\ \E i \in DOMAIN rooms :
           /\ rooms[i].state = "ended"
           /\ rooms[i].timeRemaining > 0
           /\ HighScore(rooms[i].players) = WIN_SCORE

\* room rid of rs is ended
Ended(rs, rid) == Has(rs, rid) /\ Get(rs, rid).state = "ended"

\* rs with room rid waiting and without projectiles, and nothing else changed
Reopened(rs, rid) ==
    Put(rs, [Get(rs, rid) EXCEPT !.projectiles = <<>>, !.state = "waiting"])

\* C15: handleRematch returns true exactly when the room exists and is
\* ended; it then empties the projectiles and makes the room waiting, and
\* changes nothing else (no score, no position, no timer); otherwise it
\* returns false and changes nothing. A REMATCH message for an ended room
\* with MAX_PLAYERS players goes on to start the countdown in the same
\* handler; for an ended room with fewer players it leaves the room waiting;
\* for any other room it changes nothing and sends nothing.
C15_Rematch ==
    /\ [](\A rid \in AnyRoomIds :
            /\ handleRematch(World, rid).ret = Ended(rooms, rid)
            /\ handleRematch(World, rid).w.timers = timers
            /\ handleRematch(World, rid).w.msgs = <<>>
            /\ handleRematch(World, rid).w.rooms =
                  IF Ended(rooms, rid) THEN Reopened(rooms, rid) ELSE rooms)
    /\ [][\A rid \in AnyRoomIds :
            Ran("rematch") /\ conns[out'.c].roomId = rid =>
                IF ~Ended(rooms, rid)
                THEN rooms' = rooms /\ timers' = timers /\ out'.msgs = <<>>
                ELSE IF Len(Get(rooms, rid).players) = MAX_PLAYERS
                THEN /\ Get(rooms', rid).state = "countdown"
                     /\ Get(rooms', rid).projectiles = <<>>
                     /\ \E t \in timers' \ timers :
                            /\ TimersOf(timers', rid) = {t}
                            /\ t.count = COUNTDOWN_DURATION
                            /\ Get(rooms', rid).countdownTimer = t.id
                     /\ Len(OfType(out'.msgs, "match_countdown")) = 1
                     /\ out'.edges =
                          <<[rid |-> rid, from |-> "ended", to |-> "waiting"],
                            [rid |-> rid, from |-> "waiting", to |-> "countdown"]>>
                ELSE /\ rooms' = Reopened(rooms, rid)
                     /\ timers' = timers /\ out'.msgs = <<>>]_vars

\* a rematch has just reopened an ended room that holds one player, who
\* keeps the point of the match that ended
C15_Witness ==
    /\ out.ev = "rematch"
    /\ out.edges # <<>>
    /\ \E i \in DOMAIN rooms :
           /\ rooms[i].state = "waiting"
           /\ Len(rooms[i].players) = 1
           /\ rooms[i].players[1].score > 0

\* C16: a fire intent that is rejected (no projectile is created and none
\* is announced) changes nothing: not the rooms, with every player's
\* lastFireTime, and not the timers.
C16_RejectedFireNoOp ==
    [][Ran("fire") /\ OfType(out'.msgs, "projectile_spawn") = <<>> =>
          rooms' = rooms /\ timers' = timers]_vars

\* C17: the close of a connection whose player is no longer in its room,
\* while the room exists (the player was evicted as stale and others have
\* joined since), runs removePlayer to no effect: the rooms, with their
\* phases, players and projectiles, and the timers stay as they were.
C17_AbsentRemovalNoOp ==
    [][\A c \in Conns :
          /\ Ran("close") /\ out'.c = c
          /\ PlayerOf(c) # NoPlayer
          /\ Has(rooms, conns[c].roomId)
          /\ ~Has(Get(rooms, conns[c].roomId).players, PlayerOf(c))
          => rooms' = rooms /\ timers' = timers]_vars

\* connection c belongs to a room that is not in the registry
Roomless(c) == conns[c].playerId # NoPlayer /\ ~Has(rooms, conns[c].roomId)

\* C18: every operation but the join, called with a room id that is not in
\* the registry, returns its neutral value and leaves the registry and the
\* timers as they were, creating no room: removePlayer,
\* updatePlayerPosition, fireProjectile (null), heartbeat, handleRematch
\* (false), tick (no hits), getState (null), getMatchResults (null),
\* startCountdown, startMatch and stopMatch, for every player id and every
\* payload; and every close, heartbeat and rematch handled for a connection
\* whose room is gone changes no room and no timer.
C18_UnknownRoom ==
    /\ [](\A rid \in AnyRoomIds :
            ~Has(rooms, rid) =>
                /\ \A pid \in AnyPlayerIds :
                      /\ removePlayer(World, rid, pid) = World
                      /\ heartbeat(World, rid, pid) = World
                      /\ \A m \in MoveInputs :
                            updatePlayerPosition(World, rid, pid, m.x, m.z, m.rotation)
                                = World
                      /\ \A m \in VoidFires \cup DuelFires :
                            fireProjectile(World, rid, pid, m.dirX, m.dirZ)
                                = [w |-> World, ret |-> <<>>]
                /\ handleRematch(World, rid) = [w |-> World, ret |-> FALSE]
                /\ tick(World, rid) = [w |-> World, hits |-> <<>>]
                /\ getState(World, rid) = <<>>
                /\ getMatchResults(World, rid) = <<>>
                /\ startCountdown(World, rid) = World
                /\ startMatch(World, rid) = World
                /\ stopMatch(World, rid) = World)
    /\ [][\A c \in Conns :
            /\ Ran("close") \/ Ran("heartbeat") \/ Ran("rematch")
            /\ out'.c = c
            /\ Roomless(c)
            => rooms' = rooms /\ timers' = timers]_vars

\* a heartbeat has just been handled for a connection whose room was
\* deleted when its last player was evicted
C18_Witness ==
    /\ out.ev = "heartbeat"
    /\ conns[out.c].status = "closing"
    /\ Roomless(out.c)

\* the (roomId, playerId, connection) of every player of every room that
\* has been silent for more than HEARTBEAT_TIMEOUT
StaleTriples ==
    {[roomId |-> rooms[i].id, playerId |-> rooms[i].players[j].id,
      ws |-> rooms[i].players[j].ws] :
        <<i, j>> \in {ij \in (DOMAIN rooms) \X (1..MAX_PLAYERS) :
                        /\ ij[2] \in DOMAIN rooms[ij[1]].players
                        /\ now - rooms[ij[1]].players[ij[2]].lastHeartbeat
                              > HEARTBEAT_TIMEOUT}}

\* C19: cleanStale returns exactly the triples (roomId, playerId,
\* connection) of the players, over all rooms, with
\* now - lastHeartbeat > HEARTBEAT_TIMEOUT, each once; a player silent for
\* exactly HEARTBEAT_TIMEOUT is not among them. (cleanStale only builds this
\* list: the registry it reads is not part of its result.)
C19_CleanStale ==
    /\ {cleanStale(World)[k] : k \in DOMAIN cleanStale(World)} = StaleTriples
    /\ Len(cleanStale(World)) = Cardinality(StaleTriples)

\* one player of a room has been silent for exactly the timeout and another
\* for longer: the list names the second alone
C19_Witness ==
    \E i \in DOMAIN rooms :
        /\ Len(rooms[i].players) = 2
        /\ now - rooms[i].players[1].lastHeartbeat > HEARTBEAT_TIMEOUT
        /\ now - rooms[i].players[2].lastHeartbeat = HEARTBEAT_TIMEOUT
        /\ Len(cleanStale(World)) = 1

\* the player of connection c is in its room
InRoom(c) ==
    /\ Has(rooms, conns[c].roomId)
    /\ Has(Get(rooms, conns[c].roomId).players, conns[c].playerId)

\* C20: a player whose connection has delivered no heartbeat for more than
\* HEARTBEAT_TIMEOUT, and delivers none again, is eventually out of its
\* room, the stale scan being run again and again; the scan that finds it
\* removes it, announces player_left for it to the players who stay, and
\* leaves no room without players behind.
C20_Eviction ==
    /\ \A c \in Conns : Silent(c) ~> ~InRoom(c)
    /\ [][Ran("stale_scan") =>
            /\ \A c \in Conns :
                  Silent(c) =>
                      /\ ~InRoom(c)'
                      /\ Has(rooms', conns[c].roomId) =>
                            \E k \in DOMAIN out'.msgs :
                                /\ out'.msgs[k].type = "player_left"
                                /\ out'.msgs[k].playerId = conns[c].playerId
            /\ \A i \in DOMAIN rooms' : rooms'[i].players # <<>>]_vars

\* a stale scan has just evicted both players of a room, the second being
\* told of the first: the room is gone and their sockets are closing
C20_Witness ==
    /\ out.ev = "stale_scan"
    /\ rooms = <<>>
    /\ \E c \in Conns : conns[c].status = "closing" /\ ~InRoom(c)
    /\ OfType(out.msgs, "player_left") # <<>>

\* the characters a room id may hold
Letters ==
    {"a", "b", "c", "d", "e", "f", "g", "h", "i", "j", "k", "l", "m",
     "n", "o", "p", "q", "r", "s", "t", "u", "v", "w", "x", "y", "z"}
Capitals ==
    {"A", "B", "C", "D", "E", "F", "G", "H", "I", "J", "K", "L", "M",
     "N", "O", "P", "Q", "R", "S", "T", "U", "V", "W", "X", "Y", "Z"}
Digits == {"0", "1", "2", "3", "4", "5", "6", "7", "8", "9"}
Allowed == Letters \cup Capitals \cup Digits \cup {"_", "-"}

\* chars is a room id of bounded length over the allowed characters
WellFormed(chars) ==
    /\ Len(chars) <= ROOM_ID_LENGTH
    /\ \A k \in DOMAIN chars : chars[k] \in Allowed

\* the strings of the well-formed room ids a request of Queries can lead to
WellFormedIds ==
    {Text(chars) : chars \in {n \in {RoomIdOf(q) : q \in Queries}
                                      \cup {Slice(DefaultRoom, ROOM_ID_LENGTH)} :
                                  WellFormed(n)}}

\* the request q names no room, or one with a character that is not allowed
Unnamed(q) ==
    \/ q.kind = "undefined"
    \/ \E k \in DOMAIN RawRoom(q) : RawRoom(q)[k] \notin Allowed

\* C21: every key of the room registry, and the room id of every open
\* connection, is at most ROOM_ID_LENGTH characters from a-z, A-Z, 0-9, '_'
\* and '-'; a connection that names no room, or a room with any other
\* character, is placed in the room 'default'.
C21_RoomIds ==
    /\ [](\A i \in DOMAIN rooms : rooms[i].id \in WellFormedIds)
    /\ [](\A c \in Conns : conns[c].status = "open" =>
                              conns[c].roomId \in WellFormedIds)
    /\ [][\A q \in Queries :
            Ran("connect") /\ Unnamed(q) /\ Request(q)
            /\ conns'[out'.c].status = "open" =>
                conns'[out'.c].roomId = Text(DefaultRoom)]_vars

\* C22: a client whose message count in one rate-limit window exceeds
\* MAX_MESSAGES_PER_SECOND is disconnected: the message that takes the count
\* over the limit leaves the socket closing or closed.
C22_FloodDisconnects ==
    [][\A c \in Conns :
          Ran("message") /\ out'.c = c
          /\ conns'[c].rateLimiter.count > MAX_MESSAGES_PER_SECOND =>
              conns'[c].status \in {"closing", "closed"}]_vars

\* the square of the planar distance of a projectile and a player
DistSq(proj, p) == (proj.x - p.x) * (proj.x - p.x) + (proj.z - p.z) * (proj.z - p.z)

\* the square of PLAYER_RADIUS + PROJECTILE_RADIUS
ReachSq == (PLAYER_RADIUS + PROJECTILE_RADIUS) * (PLAYER_RADIUS + PROJECTILE_RADIUS)

\* a player other than its owner is strictly within reach of the projectile
InReach(ps, proj) ==
    \E k \in DOMAIN ps : ps[k].id # proj.ownerId /\ DistSq(proj, ps[k]) < ReachSq

\* the hit records of a tick for the projectile projId
HitsOf(hits, projId) == SelectSeq(hits, LAMBDA h : h.projectileId = projId)

\* the hit records of a tick for the shooter pid
HitsBy(hits, pid) == SelectSeq(hits, LAMBDA h : h.shooterId = pid)

\* the tick r of the room took the projectile proj, moved to at, as the
\* claim says: a hit exactly when a player other than the owner is strictly
\* within reach, one record of it at most, with the fields of the hit, and
\* the projectile gone from the room after
TickedRight(room, r, after, proj, at) ==
    /\ Len(HitsOf(r.hits, proj.id)) <= 1
    /\ ~(OutOfBounds(at) \/ LifetimeExpired(at)) =>
           (HitsOf(r.hits, proj.id) # <<>> <=> InReach(room.players, at))
    /\ HitsOf(r.hits, proj.id) # <<>> =>
           LET hit == HitsOf(r.hits, proj.id)[1]
           IN  /\ DOMAIN hit = {"projectileId", "shooterId", "targetId", "x", "z"}
               /\ hit.shooterId = proj.ownerId
               /\ hit.targetId # proj.ownerId
               /\ \E k \in DOMAIN room.players :
                      /\ room.players[k].id = hit.targetId
                      /\ DistSq(at, room.players[k]) < ReachSq
               /\ hit.x = at.x /\ hit.z = at.z
               /\ \A j \in DOMAIN after.projectiles :
                      after.projectiles[j].id # proj.id

\* the tick r of the room gave every player one point for each hit of its
\* projectiles, and recorded no hit of anything but a projectile of the room
ScoredRight(room, r, after) ==
    /\ \A k \in DOMAIN room.players :
           /\ after.players[k].id = room.players[k].id
           /\ after.players[k].score
                  = room.players[k].score + Len(HitsBy(r.hits, room.players[k].id))
    /\ \A h \in DOMAIN r.hits :
           \E i \in DOMAIN room.projectiles :
               room.projectiles[i].id = r.hits[h].projectileId

\* C23: in a tick, a projectile that is not expired registers a hit exactly
\* when some player other than its owner is at a planar distance strictly
\* less than PLAYER_RADIUS + PROJECTILE_RADIUS; a hit gives the owner exactly
\* one point, makes exactly one record {projectileId, shooterId, targetId, x,
\* z} and removes the projectile; no projectile hits its owner or hits
\* twice. The game loop announces one hit_confirm per record and leaves the
\* room as the tick did.
C23_Hit ==
    /\ [](\A rid \in RoomIds :
            Has(rooms, rid) /\ Get(rooms, rid).state = "playing" =>
                /\ ScoredRight(Get(rooms, rid), tick(World, rid),
                               Get(tick(World, rid).w.rooms, rid))
                /\ \A i \in DOMAIN Get(rooms, rid).projectiles :
                       TickedRight(Get(rooms, rid), tick(World, rid),
                                   Get(tick(World, rid).w.rooms, rid),
                                   Get(rooms, rid).projectiles[i],
                                   Integrate(Get(rooms, rid).projectiles[i])))
    /\ [][\A rid \in RoomIds :
            Ran("game_loop") /\ Has(rooms, rid)
            /\ Get(rooms, rid).state = "playing" =>
                /\ Get(rooms', rid).players = Get(tick(World, rid).w.rooms, rid).players
                /\ Get(rooms', rid).projectiles
                       = Get(tick(World, rid).w.rooms, rid).projectiles
                /\ [k \in DOMAIN OfType(out'.msgs, "hit_confirm") |->
                        OfType(out'.msgs, "hit_confirm")[k].hit]
                       = tick(World, rid).hits]_vars

\* the shot from the middle has just hit the second player, who stands 0.849
\* units from it: the first player has a point and the projectile is gone
C23_Witness ==
    /\ out.ev = "game_loop"
    /\ Has(rooms, "r1")
    /\ Len(Get(rooms, "r1").players) = 2
    /\ Len(OfType(out.msgs, "hit_confirm")) = 1
    /\ OfType(out.msgs, "hit_confirm")[1].hit.x = 1800
    /\ Get(Get(rooms, "r1").players, PlayerOf(2)).x = 2649
    /\ Get(Get(rooms, "r1").players, PlayerOf(1)).score >= 1
    /\ Get(rooms, "r1").projectiles = <<>>

\* the fire intent m of the player pid of the room rid is one the server
\* accepts: the room is playing, the player is in it, the direction is
\* finite and not degenerate, the cooldown has elapsed
Acceptable(rs, rid, pid, m) ==
    /\ Has(rs, rid)
    /\ Get(rs, rid).state = "playing"
    /\ Has(Get(rs, rid).players, pid)
    /\ m.dirX.type = "number" /\ m.dirX.finite
    /\ m.dirZ.type = "number" /\ m.dirZ.finite
    /\ m.dirX.v # 0 \/ m.dirZ.v # 0
    /\ now - Get(Get(rs, rid).players, pid).lastFireTime >= FIRE_COOLDOWN

\* the unit vector of the direction m, in thousandths: of a direction along
\* x it is (1, 0) or (-1, 0) whatever its length
UnitAim(m) ==
    IF m.dirZ.v = 0
    THEN [x |-> IF m.dirX.v > 0 THEN Unit ELSE -Unit, z |-> 0]
    ELSE [x |-> (m.dirX.v * Unit) \div Sqrt(m.dirX.v * m.dirX.v + m.dirZ.v * m.dirZ.v),
          z |-> (m.dirZ.v * Unit) \div Sqrt(m.dirX.v * m.dirX.v + m.dirZ.v * m.dirZ.v)]

\* r is what the claim says of the accepted shot m of the player shooter:
\* one new projectile, the shooter's, one unit from the shooter along the
\* aim, flying along the aim at PROJECTILE_SPEED, and lastFireTime = now
ShotRight(room, after, r, shooter, m) ==
    /\ Len(r.ret) = 1
    /\ after.projectiles = Append(room.projectiles, r.ret[1])
    /\ r.ret[1].ownerId = shooter.id
    /\ r.ret[1].x = shooter.x + UnitAim(m).x
    /\ r.ret[1].z = shooter.z + UnitAim(m).z
    /\ r.ret[1].vx = UnitAim(m).x * PROJECTILE_SPEED
    /\ r.ret[1].vz = UnitAim(m).z * PROJECTILE_SPEED
    /\ Get(after.players, shooter.id).lastFireTime = now

\* C24: an accepted fire intent (room playing, known player, finite and not
\* degenerate direction, cooldown elapsed) adds exactly one projectile, owned
\* by the firing player, one unit along the normalised aim from the player's
\* position, with velocity the normalised aim times PROJECTILE_SPEED, and
\* sets the player's lastFireTime to now.
C24_AcceptedFire ==
    [][\A c \in Conns, m \in AimFires :
          Ran("fire") /\ out'.c = c
          /\ Acceptable(rooms, conns[c].roomId, conns[c].playerId, m)
          /\ FireMsg(c, m) =>
              ShotRight(Get(rooms, conns[c].roomId), Get(rooms', conns[c].roomId),
                        [ret |-> [k \in DOMAIN OfType(out'.msgs, "projectile_spawn") |->
                                     Get(Get(rooms', conns[c].roomId).projectiles,
                                         OfType(out'.msgs, "projectile_spawn")[k]
                                             .projectile.id)]],
                        Get(Get(rooms, conns[c].roomId).players, conns[c].playerId),
                        m)]_vars

\* C25: a match that has started finishes while both players stay: from a
\* state in which a room is playing, the room reaches phase ended, or the
\* room is gone or holds fewer than MAX_PLAYERS players (a player has left).
C25_MatchFinishes ==
    \A rid \in RoomIds :
        (Has(rooms, rid) /\ Get(rooms, rid).state = "playing")
            ~> \/ ~Has(rooms, rid)
               \/ Get(rooms, rid).state = "ended"
               \/ Len(Get(rooms, rid).players) < MAX_PLAYERS

\* the handler that ran last took the room rid into countdown
EnteredCountdown(rid) ==
    \E k \in DOMAIN out.edges : out.edges[k].rid = rid /\ out.edges[k].to = "countdown"

\* the player p is at the spawn of its role, with no points
AtSpawnOfRole(p) ==
    /\ p.score = 0
    /\ p.z = 0
    /\ p.characterId = "cupid_prime" =>
           p.x = -(PLAYER_SPAWN_OFFSET * Unit) /\ p.rotation = 0
    /\ p.characterId = "dark_cupid" =>
           p.x = PLAYER_SPAWN_OFFSET * Unit /\ p.rotation = PI

\* C26: on every entry into countdown, after a join or a rematch and
\* whatever joins and leaves came before, the room has no projectiles, every
\* player has score 0, and every player is at the spawn of its role: the
\* cupid_prime player at x = -PLAYER_SPAWN_OFFSET, z = 0, rotation 0, the
\* dark_cupid player at x = +PLAYER_SPAWN_OFFSET, z = 0, rotation pi.
C26_CountdownEntry ==
    \A rid \in RoomIds :
        EnteredCountdown(rid) /\ Has(rooms, rid)
        /\ Get(rooms, rid).state = "countdown" =>
            /\ Get(rooms, rid).projectiles = <<>>
            /\ \A k \in DOMAIN Get(rooms, rid).players :
                   AtSpawnOfRole(Get(rooms, rid).players[k])

\* C27: the players of one room have pairwise distinct characterIds, after
\* any joins and leaves: a full room holds one cupid_prime and one
\* dark_cupid player.
C27_DistinctRoles ==
    \A i \in DOMAIN rooms :
        \A j, k \in DOMAIN rooms[i].players :
            j # k => rooms[i].players[j].characterId # rooms[i].players[k].characterId

\* C28: a room's startTime is null unless its phase is playing: it is set
\* on the transition from countdown to playing and is null again once the
\* match has ended, has been aborted by a departure or has been reset by a
\* rematch.
C28_StartTime ==
    \A i \in DOMAIN rooms :
        rooms[i].state # "playing" => rooms[i].startTime = NullTime

\* the phase changes into ended the last handler made in the room rid
EndsOf(rid) ==
    SelectSeq(out.edges, LAMBDA e : e.rid = rid /\ e.to = "ended")

\* the match_end events the last handler sent to the room rid
MatchEndsOf(rid) ==
    SelectSeq(OfType(out.msgs, "match_end"), LAMBDA m : m.rid = rid)

\* among the events of the last handler, the match_end of the room rid comes
\* before its state_update
EndBeforeState(rid) ==
    \E i, j \in DOMAIN out.msgs :
        /\ i < j
        /\ out.msgs[i].type = "match_end" /\ out.msgs[i].rid = rid
        /\ out.msgs[j].type = "state_update" /\ out.msgs[j].rid = rid
        /\ out.msgs[j].state = "ended"

\* C29: a handler sends match_end to a room exactly when it took the room
\* into ended, and then once: it is the game loop, the event carries the
\* result of the match as getMatchResults computes it, and it comes before
\* the state_update of the same iteration; a handler that makes no such
\* transition, a later game loop on the ended room among them, sends no
\* match_end.
C29_MatchEndOnce ==
    \A rid \in RoomIds :
        /\ Len(EndsOf(rid)) <= 1
        /\ Len(MatchEndsOf(rid)) = Len(EndsOf(rid))
        /\ MatchEndsOf(rid) # <<>> =>
               /\ out.ev = "game_loop"
               /\ MatchEndsOf(rid)[1].results = getMatchResults(World, rid)
               /\ EndBeforeState(rid)

\* the game loop has just ended a match: one match_end, then the
\* state_update of the ended room
C29_Witness ==
    /\ out.ev = "game_loop"
    /\ Len(MatchEndsOf("r1")) = 1
    /\ EndBeforeState("r1")
    /\ Has(rooms, "r1") /\ Get(rooms, "r1").state = "ended"

\* every live countdown timer belongs to a room of the registry that is in
\* countdown and holds its handle
TimersHaveRooms ==
    \A t \in timers :
        /\ Has(rooms, t.rid)
        /\ Get(rooms, t.rid).state = "countdown"
        /\ Get(rooms, t.rid).countdownTimer = t.id

\* the step takes a player out of the room rid, or the room out of the
\* registry
Departure(rid) ==
    /\ Ran("close") \/ Ran("stale_scan")
    /\ Has(rooms, rid)
    /\ Has(rooms', rid) => Len(Get(rooms', rid).players) < Len(Get(rooms, rid).players)

\* the step takes the room rid into playing
Starts(rid) ==
    /\ Has(rooms', rid) /\ Get(rooms', rid).state = "playing"
    /\ ~(Has(rooms, rid) /\ Get(rooms, rid).state = "playing")

\* C30: a departure (close or stale eviction) from a room in countdown tears
\* the countdown down: the step leaves no timer for the room, sends no
\* match_countdown and no match_start, and leaves the room, if it stays,
\* waiting without a timer handle; a room enters playing only by the
\* callback of its own timer at count 1, every timer starts at
\* COUNTDOWN_DURATION and counts down by one, and a live timer always has
\* its room, in countdown: no callback acts on a deleted room.
C30_CountdownTornDown ==
    /\ []TimersHaveRooms
    /\ [][\A rid \in RoomIds :
            /\ Departure(rid) /\ Get(rooms, rid).state = "countdown" =>
                   /\ TimersOf(timers', rid) = {}
                   /\ OfType(out'.msgs, "match_countdown") = <<>>
                   /\ OfType(out'.msgs, "match_start") = <<>>
                   /\ Has(rooms', rid) =>
                          /\ Get(rooms', rid).state = "waiting"
                          /\ Get(rooms', rid).countdownTimer = NoTimer
            /\ Starts(rid) =>
                   /\ Ran("countdown_timer")
                   /\ Has(rooms, rid) /\ Get(rooms, rid).state = "countdown"
                   /\ TimersOf(timers, rid)
                          = {[id |-> Get(rooms, rid).countdownTimer,
                              rid |-> rid, count |-> 1]}
                   /\ Get(rooms', rid).players = Get(rooms, rid).players
            /\ \A t \in TimersOf(timers', rid) :
                   \/ t \in timers
                   \/ [t EXCEPT !.count = @ + 1] \in timers /\ Ran("countdown_timer")
                   \/ /\ t.count = COUNTDOWN_DURATION
                      /\ TimersOf(timers, rid) = {}]_vars

\* a player has just left a room in countdown: the room waits with the other
\* player and no timer is left
C30_Witness ==
    /\ out.ev \in {"close", "stale_scan"}
    /\ \E k \in DOMAIN out.edges :
           out.edges[k] = [rid |-> "r1", from |-> "countdown", to |-> "waiting"]
    /\ Has(rooms, "r1")
    /\ Len(Get(rooms, "r1").players) = MAX_PLAYERS - 1
    /\ Get(rooms, "r1").countdownTimer = NoTimer
    /\ timers = {}

\* C31: tick on a room that is not playing (or is not in the registry)
\* returns no hits and changes nothing: no projectile moves or is removed,
\* no score, phase, startTime or timeRemaining changes; a run of the game
\* loop over rooms none of which is playing leaves every room as it was
\* and confirms no hit.
C31_TickIdle ==
    /\ [](\A rid \in AnyRoomIds :
            ~(Has(rooms, rid) /\ Get(rooms, rid).state = "playing") =>
                /\ tick(World, rid).hits = <<>>
                /\ tick(World, rid).w = World)
    /\ [][Ran("game_loop") /\ ~Playing =>
              /\ rooms' = rooms
              /\ timers' = timers
              /\ OfType(out'.msgs, "hit_confirm") = <<>>
              /\ out'.edges = <<>>]_vars

\* the game loop has just run over an ended room in which a projectile is
\* still in flight, some time after the match began
C31_Witness ==
    /\ out.ev = "game_loop"
    /\ OfType(out.msgs, "match_end") = <<>>
    /\ Has(rooms, "r1")
    /\ Get(rooms, "r1").state = "ended"
    /\ Get(rooms, "r1").projectiles # <<>>
    /\ now > Get(rooms, "r1").startTime

\* the projectile at is beyond the half-extents of the whole arena, or older
\* than PROJECTILE_LIFETIME
Spent(at) ==
    \/ 2 * Abs(at.x) > ARENA_WIDTH * Unit
    \/ 2 * Abs(at.z) > ARENA_DEPTH * Unit
    \/ now - at.createdAt > PROJECTILE_LIFETIME

\* a player other than the owner overlaps the projectile at
Overlaps(ps, at) ==
    \E k \in DOMAIN ps : ps[k].id # at.ownerId /\ DistSq(at, ps[k]) < ReachSq

\* the tick r of the room took the spent projectile proj away without a hit
ExpiredRight(r, after, proj) ==
    /\ HitsOf(r.hits, proj.id) = <<>>
    /\ \A j \in DOMAIN after.projectiles : after.projectiles[j].id # proj.id

\* C32: in a tick, expiry comes before collision: a projectile whose
\* integrated position is beyond the half-extents of the whole arena, or
\* whose age is above PROJECTILE_LIFETIME, is removed in that tick with no
\* hit record and no point for it, even when it overlaps a player other
\* than its owner; the points of a tick are those of its hit records; and
\* after the tick, as after the game loop that ran it, no projectile left
\* in the room is beyond the arena or past its lifetime.
C32_Expiry ==
    /\ [](\A rid \in RoomIds :
            Has(rooms, rid) /\ Get(rooms, rid).state = "playing" =>
                /\ ScoredRight(Get(rooms, rid), tick(World, rid),
                               Get(tick(World, rid).w.rooms, rid))
                /\ \A i \in DOMAIN Get(rooms, rid).projectiles :
                       Spent(Integrate(Get(rooms, rid).projectiles[i])) =>
                           ExpiredRight(tick(World, rid),
                                        Get(tick(World, rid).w.rooms, rid),
                                        Get(rooms, rid).projectiles[i])
                /\ \A j \in DOMAIN Get(tick(World, rid).w.rooms, rid).projectiles :
                       ~Spent(Get(tick(World, rid).w.rooms, rid).projectiles[j]))
    /\ [][\A rid \in RoomIds :
            Ran("game_loop") /\ Has(rooms, rid)
            /\ Get(rooms, rid).state = "playing" =>
                \A j \in DOMAIN Get(rooms', rid).projectiles :
                    ~Spent(Get(rooms', rid).projectiles[j])]_vars

\* a tick has just removed, without a hit, a shot that was on the second
\* player: the room is playing, nobody has a point, no projectile is left
\* and the shot was fired more than a lifetime ago
C32_Witness ==
    /\ out.ev = "game_loop"
    /\ OfType(out.msgs, "hit_confirm") = <<>>
    /\ Has(rooms, "r1")
    /\ Get(rooms, "r1").state = "playing"
    /\ Len(Get(rooms, "r1").players) = 2
    /\ Get(rooms, "r1").projectiles = <<>>
    /\ Get(Get(rooms, "r1").players, PlayerOf(1)).score = 0
    /\ Get(Get(rooms, "r1").players, PlayerOf(1)).x = 0
    /\ Get(Get(rooms, "r1").players, PlayerOf(2)).x = 1800
    /\ now - Get(Get(rooms, "r1").players, PlayerOf(1)).lastFireTime
           = PROJECTILE_LIFETIME + 1

\* the owner of the projectile is not among the players
Orphan(ps, proj) == \A k \in DOMAIN ps : ps[k].id # proj.ownerId

\* the tick r of the room took the orphan projectile proj, which is on a
\* player at at: one hit record for it, the projectile gone
OrphanRight(r, after, proj, at) ==
    /\ Len(HitsOf(r.hits, proj.id)) = 1
    /\ HitsOf(r.hits, proj.id)[1].shooterId = proj.ownerId
    /\ HitsOf(r.hits, proj.id)[1].x = at.x
    /\ HitsOf(r.hits, proj.id)[1].z = at.z
    /\ \A j \in DOMAIN after.projectiles : after.projectiles[j].id # proj.id

\* C33: when a tick takes a projectile onto a player and the owner of the
\* projectile is no longer in the room, the hit record is emitted and the
\* projectile is removed, but no score changes by it and the hit does not
\* end the match: a tick all of whose hits are of orphan projectiles leaves
\* every score as it was, and leaves the room playing unless its time is up.
C33_AbsentOwner ==
    \A rid \in RoomIds :
        Has(rooms, rid) /\ Get(rooms, rid).state = "playing" =>
            /\ \A i \in DOMAIN Get(rooms, rid).projectiles :
                   /\ Orphan(Get(rooms, rid).players, Get(rooms, rid).projectiles[i])
                   /\ ~Spent(Integrate(Get(rooms, rid).projectiles[i]))
                   /\ Overlaps(Get(rooms, rid).players,
                               Integrate(Get(rooms, rid).projectiles[i]))
                   => OrphanRight(tick(World, rid),
                                  Get(tick(World, rid).w.rooms, rid),
                                  Get(rooms, rid).projectiles[i],
                                  Integrate(Get(rooms, rid).projectiles[i]))
            /\ (\A i \in DOMAIN Get(rooms, rid).projectiles :
                    Orphan(Get(rooms, rid).players, Get(rooms, rid).projectiles[i])) =>
                   /\ \A k \in DOMAIN Get(rooms, rid).players :
                          Get(tick(World, rid).w.rooms, rid).players[k].score
                              = Get(rooms, rid).players[k].score
                   /\ Get(tick(World, rid).w.rooms, rid).state = "ended" =>
                          Get(tick(World, rid).w.rooms, rid).timeRemaining = 0

\* the game loop has just confirmed the hit of a projectile whose owner is
\* not in the room: the room is still playing and nobody has a point
C33_Witness ==
    /\ out.ev = "game_loop"
    /\ Has(rooms, "r1")
    /\ Get(rooms, "r1").state = "playing"
    /\ \E k \in DOMAIN OfType(out.msgs, "hit_confirm") :
           Orphan(Get(rooms, "r1").players,
                  [ownerId |-> OfType(out.msgs, "hit_confirm")[k].hit.shooterId])
    /\ \A k \in DOMAIN Get(rooms, "r1").players :
           Get(rooms, "r1").players[k].score = 0
    /\ Get(rooms, "r1").projectiles = <<>>

\* C34: in every reachable state, every projectile of a playing room is owned
\* by a player that is in the room.
C34_OwnersPresent ==
    \A i \in DOMAIN rooms :
        rooms[i].state = "playing" =>
            \A j \in DOMAIN rooms[i].projectiles :
                ~Orphan(rooms[i].players, rooms[i].projectiles[j])

\* a match after a departure: the room is playing with the player of the
\* third connection in it, and holds a shot
C34_Witness ==
    /\ Has(rooms, "r1")
    /\ Get(rooms, "r1").state = "playing"
    /\ Has(Get(rooms, "r1").players, 3)
    /\ Get(rooms, "r1").projectiles # <<>>

\* C35: in every reachable state the score of every player is at least 0 and
\* at most WIN_SCORE, also after a tick in which several projectiles hit and
\* the winning score is reached.
C35_ScoreCap ==
    \A i \in DOMAIN rooms :
        \A k \in DOMAIN rooms[i].players :
            /\ rooms[i].players[k].score >= 0
            /\ rooms[i].players[k].score <= WIN_SCORE

\* C36: in every reachable state, a room that is in countdown or playing
\* holds exactly MAX_PLAYERS players.
C36_FullWhileActive ==
    \A i \in DOMAIN rooms :
        MatchActive(rooms[i]) => Len(rooms[i].players) = MAX_PLAYERS

\* a rematch has just put a room of MAX_PLAYERS players, one of which came
\* after a departure, into countdown
C36_Witness ==
    /\ out.ev = "rematch"
    /\ \E k \in DOMAIN out.edges : out.edges[k].to = "countdown"
    /\ \E i \in DOMAIN rooms :
           /\ rooms[i].state = "countdown"
           /\ Len(rooms[i].players) = MAX_PLAYERS
           /\ Has(rooms[i].players, 3)

\* C37: rooms do not persist with zero occupants: after every handler of the
\* server (a connection accepted or rejected, a message, a close, a stale
\* eviction, a tick) every room of the registry holds at least one player.
C37_NoEmptyRoom ==
    \A i \in DOMAIN rooms : Len(rooms[i].players) >= 1

\* the last player of a room has just left, by a close or by an eviction,
\* and the registry holds no room
C37_Witness ==
    /\ out.ev \in {"close", "stale_scan"}
    /\ \E c \in Conns : conns[c].playerId # 0
    /\ rooms = <<>>

\* C39: after every connection and reconnection of the page, once the
\* player_joined the server sent to the socket has been handled,
\* localPlayerId and localCharacterId are the id and the characterId of the
\* player the server made for the socket the page has now.
C39_LocalIdentity ==
    /\ client.readyState = "open"
    /\ client.inbox = <<>>
    /\ conns[client.ws].status = "open"
    /\ Has(rooms, conns[client.ws].roomId)
    /\ Has(Get(rooms, conns[client.ws].roomId).players, conns[client.ws].playerId)
    => /\ client.localPlayerId = conns[client.ws].playerId
       /\ client.localCharacterId =
              Get(Get(rooms, conns[client.ws].roomId).players,
                  conns[client.ws].playerId).characterId

\* C40: the reconnect policy of the page. A close that disconnect() did not
\* ask for, after n reconnects without an open, schedules a reconnect
\* min(1000 * 2^n, 10000) ms later while n is below MAX_RECONNECT and none
\* from then on, so that the page makes at most MAX_RECONNECT reconnects in a
\* row without an open; an open sets the counter to 0; a reconnect comes no
\* earlier than it was scheduled for; and once disconnect() was called no
\* reconnect is scheduled or made.
C40_ReconnectPolicy ==
    /\ [](client.tries <= MAX_RECONNECT)
    /\ [](client.stopped => client.reconnectTimer = 0)
    /\ [][
           /\ Ran("page_close") =>
               (client'.reconnectTimer =
                    IF client.stopped \/ client.tries >= MAX_RECONNECT THEN 0
                    ELSE now + Min(1000 * Pow2(client.tries), 10000))
           /\ Ran("page_open") =>
               (client'.reconnectAttempts = 0 /\ client'.tries = 0)
           /\ Ran("page_reconnect") =>
               (/\ ~client.stopped
                /\ client.reconnectTimer # 0
                /\ now >= client.reconnectTimer
                /\ client'.tries = client.tries + 1)]_vars

\* the page has given up: MAX_RECONNECT reconnects in a row were refused, the
\* last one 10 seconds after the one before, and nothing is scheduled
C40_Witness ==
    /\ out.ev = "page_close"
    /\ ~client.stopped
    /\ client.tries = MAX_RECONNECT
    /\ client.readyState = "closed"
    /\ client.reconnectTimer = 0
    /\ now = Epoch + 1000 + 2000 + 4000 + 8000 + 10000

\* the player of the page
PagePlayer ==
    Get(Get(rooms, conns[client.ws].roomId).players, conns[client.ws].playerId)

\* C38: a page that is connected and sends a heartbeat every
\* HEARTBEAT_INTERVAL, and its state on every animation frame of a match, is
\* never stale and never evicted: while its socket is open its player is in
\* the room and cleanStale does not report it.
C38_HeartbeatingStays ==
    client.readyState = "open" /\ client.localPlayerId # 0 =>
        /\ conns[client.ws].status = "open"
        /\ Has(rooms, conns[client.ws].roomId)
        /\ Has(Get(rooms, conns[client.ws].roomId).players, conns[client.ws].playerId)
        /\ ~IsStale(PagePlayer)

====
